---------------------------- MODULE Spec2Model ----------------------------
(***************************************************************************)
(* Model of the CropAI pest-risk engine (src/pest_risk.py) and of the      *)
(* page that serves it (src/app.py).                                       *)
(*                                                                         *)
(* Python floats are IEEE-754 doubles.  A double d with 0 <= d < 2 that is *)
(* a multiple of 2^-56 is represented exactly by five base-2^14 limbs,     *)
(* least significant first: the value is (SUM d[i] * 2^(14*(i-1))) / 2^56, *)
(* so limb 5 is the integer part.  Every double the engine computes (the   *)
(* weights 0.3 and 0.4, their sums, the escalation by 0.2, the products by *)
(* 0.8 of scores >= 0.4 and the differences 1 - score) is zero or lies in  *)
(* [2^-4, 2) and so is such a multiple.  Addition, subtraction and         *)
(* multiplication compute the exact result and round it to 53 significant  *)
(* bits, ties to even, as the hardware does.                               *)
(***************************************************************************)
EXTENDS Integers, Sequences, FiniteSets, TLC

B == 2^14
HalfB == 2^13

\* Carry propagation over column sums (a column may be negative: a borrow).
RECURSIVE Carry(_, _)
Carry(c, k) ==
    IF Len(c) = 1 THEN <<c[1] + k>>
    ELSE <<(c[1] + k) % B>> \o Carry(Tail(c), (c[1] + k) \div B)

\* The unit in the last place of the double nearest t, in units of 2^-56.
Ulp(t) ==
    IF t[5] >= 1 THEN 16
    ELSE IF t[4] >= 2^13 THEN 8
    ELSE IF t[4] >= 2^12 THEN 4
    ELSE IF t[4] >= 2^11 THEN 2
    ELSE 1

\* Round the exact value t + f to a double, ties to even; frac describes the
\* part f below one unit: 0 none, 1 below half, 2 exactly half, 3 above half.
RoundToDouble(t, frac) ==
    LET q == Ulp(t)
        r == t[1] % q
        odd == (t[1] \div q) % 2 = 1
        h == q \div 2
        up == IF q = 1 THEN frac = 3 \/ (frac = 2 /\ odd)
              ELSE r > h \/ (r = h /\ (frac > 0 \/ odd))
    IN  Carry(<<t[1] - r + (IF up THEN q ELSE 0), t[2], t[3], t[4], t[5]>>, 0)

FAdd(a, b) == RoundToDouble(Carry([i \in 1..5 |-> a[i] + b[i]], 0), 0)

\* a - b for a >= b
FSub(a, b) == RoundToDouble(Carry([i \in 1..5 |-> a[i] - b[i]], 0), 0)

FMul(a, b) ==
    LET col(k) == LET I == {i \in 1..5 : k + 1 - i \in 1..5}
                      term[i \in 1..5] == IF i \in I THEN a[i] * b[k + 1 - i] ELSE 0
                  IN  term[1] + term[2] + term[3] + term[4] + term[5]
        p == Carry([k \in 1..9 |-> col(k)], 0)
        low == p[1] # 0 \/ p[2] # 0 \/ p[3] # 0
        frac == IF p[4] > HalfB THEN 3
                ELSE IF p[4] = HalfB THEN (IF low THEN 3 ELSE 2)
                ELSE IF p[4] > 0 \/ low THEN 1
                ELSE 0
    IN  RoundToDouble(<<p[5], p[6], p[7], p[8], p[9]>>, frac)

FLess(a, b) == \E i \in 1..5 : a[i] < b[i] /\ \A j \in (i + 1)..5 : a[j] = b[j]
FLeq(a, b) == ~FLess(b, a)

\* Python's min(a, b) and max(a, b): the first argument wins a tie.
FMin(a, b) == IF FLess(b, a) THEN b ELSE a
FMax(a, b) == IF FLess(a, b) THEN b ELSE a

\* The double a decimal literal n/d denotes: the correctly rounded quotient.
Dec(n, d) ==
    LET q5 == n \div d
        r5 == n % d
        q4 == (r5 * B) \div d
        r4 == (r5 * B) % d
        q3 == (r4 * B) \div d
        r3 == (r4 * B) % d
        q2 == (r3 * B) \div d
        r2 == (r3 * B) % d
        q1 == (r2 * B) \div d
        r1 == (r2 * B) % d
        frac == IF r1 = 0 THEN 0
                ELSE IF 2 * r1 < d THEN 1
                ELSE IF 2 * r1 = d THEN 2
                ELSE 3
    IN  RoundToDouble(<<q1, q2, q3, q4, q5>>, frac)


(***************************************************************************)
(* Float literals of src/pest_risk.py                                      *)
(***************************************************************************)
F0_0 == Dec(0, 10)
F0_2 == Dec(2, 10)
F0_3 == Dec(3, 10)
F0_4 == Dec(4, 10)
F0_6 == Dec(6, 10)
F0_7 == Dec(7, 10)
F0_8 == Dec(8, 10)
F0_95 == Dec(95, 100)
F1_0 == Dec(10, 10)

(***************************************************************************)
(* Inputs.  A reading is three finite numbers.  The engine only compares   *)
(* them with integer thresholds (5, 15, 20, 25, 27, 30, 32, 35 for the     *)
(* temperature; 20, 40, 50, 60, 70, 75, 80, 90 for the humidity; 2, 5, 8,  *)
(* 10, 12, 15, 25 for the rainfall), so every threshold, a value between   *)
(* each two neighbouring thresholds and a value beyond the outermost ones  *)
(* represent all readings; humidity and rainfall include values outside    *)
(* their physical range, which get_weather_data passes on as received.     *)
(***************************************************************************)
TempHi == 36
HumidityHi == 101
RainHi == 26

Temperatures == {4, 5, 10, 15, 17, 20, 22, 25, 26, 27, 28, 30, 31, 32, 33, 35, TempHi}
Humidities == {0 - 5, 19, 20, 30, 40, 45, 50, 55, 60, 65, 70, 72, 75, 78, 80, 85, 90, 95,
               HumidityHi}
Rainfalls == {0 - 3, 0, 2, 3, 5, 6, 8, 9, 10, 11, 12, 13, 15, 20, 25, RainHi}

\* WeatherData (the timestamp plays no part in the assessment)
WeatherData(t, h, r) == [temperature |-> t, humidity |-> h, rainfall |-> r]
Readings == {WeatherData(t, h, r) : t \in Temperatures, h \in Humidities, r \in Rainfalls}

\* _generate_mock_weather: the canned scenarios random.choice picks from
Scenarios == {WeatherData(22, 55, 2), WeatherData(28, 68, 8), WeatherData(34, 82, 18),
              WeatherData(26, 45, 0), WeatherData(18, 85, 15)}

(***************************************************************************)
(* The weather source's answer to requests.get.  Only what lines 77-82     *)
(* read of it is kept: whether the call raised, the status code, and of    *)
(* the JSON body the entries main.temp, main.humidity and rain.            *)
(***************************************************************************)
\* A JSON null where a number is expected: Python's None, which the engine's
\* comparisons reject with a TypeError.  It is written as an integer that no
\* reading has.
JsonNull == 0 - 1000

\* The JSON literal NaN, which response.json() accepts and turns into
\* float('nan').  It is written as an integer that no reading has; every
\* comparison with it is false, as Python's float comparisons are.
NaN == 0 - 2000
Lt(a, b) == a # NaN /\ b # NaN /\ a < b
Le(a, b) == a # NaN /\ b # NaN /\ a <= b
Gt(a, b) == a # NaN /\ b # NaN /\ a > b

\* rain is "absent" (no such key), "empty" ({}), "1h" ({"1h": rain_1h}) or
\* "scalar" (a number in place of the object)
Payload(t, h, rain, r) ==
    [valid_json |-> TRUE, has_main |-> TRUE, has_temp |-> TRUE, has_humidity |-> TRUE,
     temp |-> t, humidity |-> h, rain |-> rain, rain_1h |-> r]

GoodPayloads ==
    {Payload(t, h, "1h", r) : t \in Temperatures, h \in Humidities, r \in Rainfalls}
    \cup {Payload(t, h, rain, 0) : t \in Temperatures, h \in Humidities,
                                   rain \in {"absent", "empty"}}

NullPayloads ==
    {Payload(JsonNull, 55, "absent", 0), Payload(22, JsonNull, "absent", 0),
     Payload(22, 55, "1h", JsonNull)}

NaNPayloads ==
    {Payload(t, h, "1h", r) : t \in {4, 10, 22, TempHi, NaN}, h \in {45, 55, 95, NaN},
                             r \in {9, NaN}}

BadPayloads ==
    {[Payload(22, 55, "1h", 2) EXCEPT !.valid_json = FALSE],
     [Payload(22, 55, "1h", 2) EXCEPT !.has_main = FALSE],
     [Payload(22, 55, "1h", 2) EXCEPT !.has_temp = FALSE],
     [Payload(22, 55, "1h", 2) EXCEPT !.has_humidity = FALSE],
     Payload(22, 55, "scalar", 0)}

NoPayload == [Payload(0, 0, "absent", 0) EXCEPT !.valid_json = FALSE]

HttpResponse(code, data) == [kind |-> "http", status_code |-> code, data |-> data]
\* requests.get raised (connection error, timeout)
RequestRaised == [kind |-> "raised", status_code |-> 0, data |-> NoPayload]
\* no request was made
NoResponse == [kind |-> "none", status_code |-> 0, data |-> NoPayload]

Responses ==
    {RequestRaised}
    \cup {HttpResponse(200, d) : d \in GoodPayloads \cup NullPayloads \cup NaNPayloads
                                  \cup BadPayloads}
    \cup {HttpResponse(code, d) : code \in {401, 404, 500},
                                  d \in {NoPayload, Payload(22, 55, "1h", 2)}}

NoFetch == [contacts |-> 0, response |-> NoResponse, returned |-> "none"]

\* Strings are sequences of characters, so that str.lower() can be computed.
LowerChar(c) ==
    CASE c = "A" -> "a" [] c = "B" -> "b" [] c = "C" -> "c" [] c = "D" -> "d"
      [] c = "E" -> "e" [] c = "F" -> "f" [] c = "G" -> "g" [] c = "H" -> "h"
      [] c = "I" -> "i" [] c = "J" -> "j" [] c = "K" -> "k" [] c = "L" -> "l"
      [] c = "M" -> "m" [] c = "N" -> "n" [] c = "O" -> "o" [] c = "P" -> "p"
      [] c = "Q" -> "q" [] c = "R" -> "r" [] c = "S" -> "s" [] c = "T" -> "t"
      [] c = "U" -> "u" [] c = "V" -> "v" [] c = "W" -> "w" [] c = "X" -> "x"
      [] c = "Y" -> "y" [] c = "Z" -> "z"
      [] OTHER -> c
Lower(s) == [i \in DOMAIN s |-> LowerChar(s[i])]

NoDisease == [is_none |-> TRUE, text |-> <<>>]
Str(s) == [is_none |-> FALSE, text |-> s]
Diseases == {NoDisease, Str(<<>>),
             Str(<<"u", "n", "k", "n", "o", "w", "n">>),
             Str(<<"U", "n", "k", "n", "o", "w", "n">>),
             Str(<<"U", "N", "K", "N", "O", "W", "N">>),
             Str(<<"H", "e", "a", "l", "t", "h", "y">>)}

\* A variable that is not yet assigned holds the empty value, which differs
\* from every reading, score mapping, score and assessment.
None == <<>>

VARIABLES
    pc,            \* the request's position: FetchWeather, HandleResponse,
                   \* Score, Aggregate, MaybeOverride, Done, Raised
    api_key,       \* PestRiskEngine.api_key is set (line 69 tests its truth)
    disease,       \* get_pest_risk_assessment's disease argument
    fetch,         \* get_weather_data: how often requests.get was called, what
                   \* it answered, and the return statement taken ("live" is
                   \* line 79, "mock" is line 89)
    weather_data,  \* line 352: the reading get_weather_data returned
    pest_risks,    \* line 118: the score dict, as its items in insertion order
    max_risk,      \* _determine_overall_risk's max_risk as it stands at line 212
    assessment,    \* line 353: the PestRiskAssessment; line 371 returns it
    calls,         \* concurrent calls: each call's own frame (its position,
                   \* arguments and locals; objects are held by reference)
    heap,          \* concurrent calls: the objects the references point to
                   \* (PestRiskAssessment objects, recommendation dicts)
    page,          \* app.py, plant_detection: the POST request, the handler's
                   \* position and locals, and the response it returns
    uploads        \* app.py: the files in app.config['UPLOAD_FOLDER']

vars == <<pc, api_key, disease, fetch, weather_data, pest_risks, max_risk, assessment,
          calls, heap, page, uploads>>

(***************************************************************************)
(* _calculate_individual_pest_risks: the dict, in insertion order          *)
(***************************************************************************)
\* AphidRisk with the rainfall weight mistyped as 0.4 and the clamp left out
AphidRiskUnclamped(w) ==
    LET r1 == IF Le(15, w.temperature) /\ Le(w.temperature, 25) THEN FAdd(F0_0, F0_4) ELSE F0_0
        r2 == IF Gt(w.humidity, 50) THEN FAdd(r1, F0_3) ELSE r1
        r3 == IF Lt(w.rainfall, 10) THEN FAdd(r2, F0_4) ELSE r2
    IN  r3

AphidRisk(w) ==
    LET r1 == IF Le(15, w.temperature) /\ Le(w.temperature, 25) THEN FAdd(F0_0, F0_4) ELSE F0_0
        r2 == IF Gt(w.humidity, 50) THEN FAdd(r1, F0_3) ELSE r1
        r3 == IF Lt(w.rainfall, 10) THEN FAdd(r2, F0_3) ELSE r2
    IN  FMin(r3, F1_0)

\* FungalRisk with a temperature band that starts at 15
FungalRiskCoolBand(w) ==
    LET r1 == IF Le(15, w.temperature) /\ Le(w.temperature, 30) THEN FAdd(F0_0, F0_3) ELSE F0_0
        r2 == IF Gt(w.humidity, 70) THEN FAdd(r1, F0_4) ELSE r1
        r3 == IF Gt(w.rainfall, 5) THEN FAdd(r2, F0_3) ELSE r2
    IN  FMin(r3, F1_0)

FungalRisk(w) ==
    LET r1 == IF Le(20, w.temperature) /\ Le(w.temperature, 30) THEN FAdd(F0_0, F0_3) ELSE F0_0
        r2 == IF Gt(w.humidity, 70) THEN FAdd(r1, F0_4) ELSE r1
        r3 == IF Gt(w.rainfall, 5) THEN FAdd(r2, F0_3) ELSE r2
    IN  FMin(r3, F1_0)

MiteRisk(w) ==
    LET r1 == IF Gt(w.temperature, 27) THEN FAdd(F0_0, F0_4) ELSE F0_0
        r2 == IF Lt(w.humidity, 40) THEN FAdd(r1, F0_3) ELSE r1
        r3 == IF Lt(w.rainfall, 2) THEN FAdd(r2, F0_3) ELSE r2
    IN  FMin(r3, F1_0)

\* ThripRisk with the humidity band's ends excluded
ThripRiskOpenBand(w) ==
    LET r1 == IF Le(20, w.temperature) /\ Le(w.temperature, 30) THEN FAdd(F0_0, F0_3) ELSE F0_0
        r2 == IF Lt(40, w.humidity) /\ Lt(w.humidity, 70) THEN FAdd(r1, F0_3) ELSE r1
        r3 == IF Lt(w.rainfall, 8) THEN FAdd(r2, F0_4) ELSE r2
    IN  FMin(r3, F1_0)

ThripRisk(w) ==
    LET r1 == IF Le(20, w.temperature) /\ Le(w.temperature, 30) THEN FAdd(F0_0, F0_3) ELSE F0_0
        r2 == IF Le(40, w.humidity) /\ Le(w.humidity, 70) THEN FAdd(r1, F0_3) ELSE r1
        r3 == IF Lt(w.rainfall, 8) THEN FAdd(r2, F0_4) ELSE r2
    IN  FMin(r3, F1_0)

\* WhiteflyRisk with the rainfall weight lowered to 0.2
WhiteflyRiskLightRain(w) ==
    LET r1 == IF Le(25, w.temperature) /\ Le(w.temperature, 32) THEN FAdd(F0_0, F0_4) ELSE F0_0
        r2 == IF Gt(w.humidity, 60) THEN FAdd(r1, F0_3) ELSE r1
        r3 == IF Lt(w.rainfall, 12) THEN FAdd(r2, F0_2) ELSE r2
    IN  FMin(r3, F1_0)

WhiteflyRisk(w) ==
    LET r1 == IF Le(25, w.temperature) /\ Le(w.temperature, 32) THEN FAdd(F0_0, F0_4) ELSE F0_0
        r2 == IF Gt(w.humidity, 60) THEN FAdd(r1, F0_3) ELSE r1
        r3 == IF Lt(w.rainfall, 12) THEN FAdd(r2, F0_3) ELSE r2
    IN  FMin(r3, F1_0)

CalculateIndividualPestRisks(w) ==
    << <<"aphids", AphidRisk(w)>>,
       <<"fungal_diseases", FungalRisk(w)>>,
       <<"spider_mites", MiteRisk(w)>>,
       <<"thrips", ThripRisk(w)>>,
       <<"whiteflies", WhiteflyRisk(w)>> >>


(***************************************************************************)
(* _determine_overall_risk                                                 *)
(***************************************************************************)
\* max(pest_risks.values()): the first maximal value
RECURSIVE MaxValue(_)
MaxValue(items) ==
    IF Len(items) = 1 THEN items[1][2]
    ELSE LET m == MaxValue(SubSeq(items, 1, Len(items) - 1))
         IN  FMax(m, items[Len(items)][2])

\* ExtremeWeather with the humidity extreme from 80 instead of 90
ExtremeWeatherHumid80(w) ==
    LET temp_extreme == Gt(w.temperature, 35) \/ Lt(w.temperature, 5)
        humidity_extreme == Gt(w.humidity, 80) \/ Lt(w.humidity, 20)
        rainfall_extreme == Gt(w.rainfall, 25)
    IN  temp_extreme \/ humidity_extreme \/ rainfall_extreme

\* lines 205-207 and the test of line 209
ExtremeWeather(w) ==
    LET temp_extreme == Gt(w.temperature, 35) \/ Lt(w.temperature, 5)
        humidity_extreme == Gt(w.humidity, 90) \/ Lt(w.humidity, 20)
        rainfall_extreme == Gt(w.rainfall, 25)
    IN  temp_extreme \/ humidity_extreme \/ rainfall_extreme

\* EscalatedMaxRisk adding 0.2 for each extreme factor instead of once
EscalatedMaxRiskPerFactor(risks, w) ==
    LET m0 == MaxValue(risks)
        m1 == IF Gt(w.temperature, 35) \/ Lt(w.temperature, 5) THEN FMin(FAdd(m0, F0_2), F1_0) ELSE m0
        m2 == IF Gt(w.humidity, 90) \/ Lt(w.humidity, 20) THEN FMin(FAdd(m1, F0_2), F1_0) ELSE m1
        m3 == IF Gt(w.rainfall, 25) THEN FMin(FAdd(m2, F0_2), F1_0) ELSE m2
    IN  m3

\* max_risk as it stands at line 212
EscalatedMaxRisk(risks, w) ==
    LET m == MaxValue(risks)
    IN  IF ExtremeWeather(w) THEN FMin(FAdd(m, F0_2), F1_0) ELSE m

\* RiskVerdict with strict comparisons at the two thresholds
RiskVerdictStrict(m) ==
    IF FLess(F0_7, m)
    THEN [level |-> "High", color |-> "red", emoji |-> "red circle",
          confidence |-> FMin(m, F0_95)]
    ELSE IF FLess(F0_4, m)
    THEN [level |-> "Medium", color |-> "yellow", emoji |-> "yellow circle",
          confidence |-> FMul(m, F0_8)]
    ELSE [level |-> "Low", color |-> "green", emoji |-> "green circle",
          confidence |-> FSub(F1_0, m)]

\* RiskVerdict without the 0.95 cap on a High verdict's confidence
RiskVerdictUncapped(m) ==
    IF FLeq(F0_7, m)
    THEN [level |-> "High", color |-> "red", emoji |-> "red circle",
          confidence |-> m]
    ELSE IF FLeq(F0_4, m)
    THEN [level |-> "Medium", color |-> "yellow", emoji |-> "yellow circle",
          confidence |-> FMul(m, F0_8)]
    ELSE [level |-> "Low", color |-> "green", emoji |-> "green circle",
          confidence |-> FSub(F1_0, m)]

\* RiskVerdict with the levels of the first two branches exchanged
RiskVerdictSwapped(m) ==
    IF FLeq(F0_7, m)
    THEN [level |-> "Medium", color |-> "yellow", emoji |-> "yellow circle",
          confidence |-> FMin(m, F0_95)]
    ELSE IF FLeq(F0_4, m)
    THEN [level |-> "High", color |-> "red", emoji |-> "red circle",
          confidence |-> FMul(m, F0_8)]
    ELSE [level |-> "Low", color |-> "green", emoji |-> "green circle",
          confidence |-> FSub(F1_0, m)]

\* lines 213-233
RiskVerdict(m) ==
    IF FLeq(F0_7, m)
    THEN [level |-> "High", color |-> "red", emoji |-> "red circle",
          confidence |-> FMin(m, F0_95)]
    ELSE IF FLeq(F0_4, m)
    THEN [level |-> "Medium", color |-> "yellow", emoji |-> "yellow circle",
          confidence |-> FMul(m, F0_8)]
    ELSE [level |-> "Low", color |-> "green", emoji |-> "green circle",
          confidence |-> FSub(F1_0, m)]

DetermineOverallRisk(risks, w) == RiskVerdict(EscalatedMaxRisk(risks, w))

(***************************************************************************)
(* _identify_primary_threats                                               *)
(***************************************************************************)
\* InsertDesc putting an item before the items of equal score: not stable
RECURSIVE InsertDescUnstable(_, _)
InsertDescUnstable(sorted, item) ==
    IF sorted = <<>> THEN <<item>>
    ELSE IF FLeq(sorted[1][2], item[2]) THEN <<item>> \o sorted
    ELSE <<sorted[1]>> \o InsertDescUnstable(Tail(sorted), item)

\* sorted(items, key=score, reverse=True): a stable sort, equal scores keep
\* their order; here by insertion from the left.
RECURSIVE InsertDesc(_, _)
InsertDesc(sorted, item) ==
    IF sorted = <<>> THEN <<item>>
    ELSE IF FLess(sorted[1][2], item[2]) THEN <<item>> \o sorted
    ELSE <<sorted[1]>> \o InsertDesc(Tail(sorted), item)

RECURSIVE SortedDesc(_)
SortedDesc(items) ==
    IF items = <<>> THEN <<>>
    ELSE InsertDesc(SortedDesc(SubSeq(items, 1, Len(items) - 1)), items[Len(items)])

ThreatName(pest) ==
    CASE pest = "aphids" -> "Aphid Infestation"
      [] pest = "fungal_diseases" -> "Fungal Diseases"
      [] pest = "spider_mites" -> "Spider Mite Damage"
      [] pest = "thrips" -> "Thrips Damage"
      [] pest = "whiteflies" -> "Whitefly Infestation"

Take(s, n) == SubSeq(s, 1, IF Len(s) < n THEN Len(s) ELSE n)

\* IdentifyPrimaryThreats counting a score of 0.3 as significant
IdentifyPrimaryThreatsInclusive(risks) ==
    LET sorted_pests == SortedDesc(risks)
        significant_threats == SelectSeq(sorted_pests, LAMBDA x : FLeq(F0_3, x[2]))
        top == Take(significant_threats, 3)
    IN  [i \in 1..Len(top) |-> ThreatName(top[i][1])]

IdentifyPrimaryThreats(risks) ==
    LET sorted_pests == SortedDesc(risks)
        significant_threats == SelectSeq(sorted_pests, LAMBDA x : FLess(F0_3, x[2]))
        top == Take(significant_threats, 3)
    IN  [i \in 1..Len(top) |-> ThreatName(top[i][1])]

(***************************************************************************)
(* _generate_recommendations (the advisory texts without their emoji)      *)
(***************************************************************************)
PestAdvice(pest) ==
    CASE pest = "aphids" ->
           <<"Scout for aphid colonies on new growth",
             "Apply insecticidal soap or neem oil spray",
             "Release beneficial insects like ladybugs">>
      [] pest = "fungal_diseases" ->
           <<"Improve air circulation between plants",
             "Apply preventive fungicide spray",
             "Avoid overhead watering - use drip irrigation">>
      [] pest = "spider_mites" ->
           <<"Increase humidity around plants with misting",
             "Check undersides of leaves for fine webbing",
             "Apply miticide or predatory mite release">>
      [] pest = "thrips" ->
           <<"Use blue sticky traps to monitor populations",
             "Apply beneficial nematodes to soil",
             "Remove weeds that harbor thrips">>
      [] pest = "whiteflies" ->
           <<"Install yellow sticky traps",
             "Apply horticultural oil spray",
             "Remove lower leaves touching soil">>
      [] OTHER -> <<>>

VentilationAdvice == "Critical: Increase ventilation to reduce humidity"
ShadeAdvice == "Provide shade cloth during peak heat hours"
DrainageAdvice == "Improve drainage and avoid additional watering"

\* list(dict.fromkeys(s)): the first occurrence of each element, in order
RECURSIVE Dedup(_)
Dedup(s) ==
    IF s = <<>> THEN <<>>
    ELSE LET front == Dedup(SubSeq(s, 1, Len(s) - 1))
             last == s[Len(s)]
         IN  IF \E i \in DOMAIN front : front[i] = last THEN front
             ELSE Append(front, last)

\* PestRecommendations with risk >= 0.6 for risk > 0.6
RECURSIVE PestRecommendationsInclusive(_)
PestRecommendationsInclusive(risks) ==
    IF risks = <<>> THEN <<>>
    ELSE (IF FLeq(F0_6, risks[1][2]) THEN PestAdvice(risks[1][1]) ELSE <<>>)
         \o PestRecommendationsInclusive(Tail(risks))

RECURSIVE PestRecommendations(_)
PestRecommendations(risks) ==
    IF risks = <<>> THEN <<>>
    ELSE (IF FLess(F0_6, risks[1][2]) THEN PestAdvice(risks[1][1]) ELSE <<>>)
         \o PestRecommendations(Tail(risks))

\* GenerateRecommendations cutting the list at 7 instead of 6
GenerateRecommendationsSeven(risks, w) ==
    LET pest == PestRecommendations(risks)
        r1 == IF Gt(w.humidity, 80) THEN Append(pest, VentilationAdvice) ELSE pest
        r2 == IF Gt(w.temperature, 32) THEN Append(r1, ShadeAdvice) ELSE r1
        r3 == IF Gt(w.rainfall, 15) THEN Append(r2, DrainageAdvice) ELSE r2
    IN  Take(Dedup(r3), 7)

\* GenerateRecommendations collecting the weather advisories before the
\* category advisories
GenerateRecommendationsWeatherFirst(risks, w) ==
    LET r1 == IF Gt(w.humidity, 80) THEN <<VentilationAdvice>> ELSE <<>>
        r2 == IF Gt(w.temperature, 32) THEN Append(r1, ShadeAdvice) ELSE r1
        r3 == IF Gt(w.rainfall, 15) THEN Append(r2, DrainageAdvice) ELSE r2
    IN  Take(Dedup(r3 \o PestRecommendations(risks)), 6)

GenerateRecommendations(risks, w) ==
    LET pest == PestRecommendations(risks)
        r1 == IF Gt(w.humidity, 80) THEN Append(pest, VentilationAdvice) ELSE pest
        r2 == IF Gt(w.temperature, 32) THEN Append(r1, ShadeAdvice) ELSE r1
        r3 == IF Gt(w.rainfall, 15) THEN Append(r2, DrainageAdvice) ELSE r2
    IN  Take(Dedup(r3), 6)

(***************************************************************************)
(* _generate_weather_summary and _generate_detailed_analysis.  A reading   *)
(* of the model is integer-valued, so "{x:.1f}" shows it with ".0" and     *)
(* "{x:.0f}" shows it as it is; either format shows NaN as "nan".          *)
(***************************************************************************)
Fmt1(x) == IF x = NaN THEN "nan" ELSE ToString(x) \o ".0"
Fmt0(x) == IF x = NaN THEN "nan" ELSE ToString(x)

\* GenerateWeatherSummary that also prints the time of the reading
GenerateWeatherSummaryStamped(w) ==
    LET temp_desc == IF Gt(w.temperature, 30) THEN "hot"
                     ELSE IF Gt(w.temperature, 20) THEN "warm" ELSE "cool"
        humidity_desc == IF Gt(w.humidity, 80) THEN "very humid"
                         ELSE IF Gt(w.humidity, 60) THEN "humid" ELSE "dry"
        rain_desc == IF Gt(w.rainfall, 10) THEN "with significant rainfall"
                     ELSE IF Gt(w.rainfall, 2) THEN "with light rainfall"
                     ELSE "with no rainfall"
    IN  "Current conditions at " \o ToString(w.timestamp) \o ": "
        \o temp_desc \o " (" \o Fmt1(w.temperature) \o "C), "
        \o humidity_desc \o " (" \o Fmt0(w.humidity) \o "%), "
        \o rain_desc \o " (" \o Fmt1(w.rainfall) \o "mm)"

GenerateWeatherSummary(w) ==
    LET temp_desc == IF Gt(w.temperature, 30) THEN "hot"
                     ELSE IF Gt(w.temperature, 20) THEN "warm" ELSE "cool"
        humidity_desc == IF Gt(w.humidity, 80) THEN "very humid"
                         ELSE IF Gt(w.humidity, 60) THEN "humid" ELSE "dry"
        rain_desc == IF Gt(w.rainfall, 10) THEN "with significant rainfall"
                     ELSE IF Gt(w.rainfall, 2) THEN "with light rainfall"
                     ELSE "with no rainfall"
    IN  "Current conditions: " \o temp_desc \o " (" \o Fmt1(w.temperature) \o "C), "
        \o humidity_desc \o " (" \o Fmt0(w.humidity) \o "%), "
        \o rain_desc \o " (" \o Fmt1(w.rainfall) \o "mm)"

\* the dict, in insertion order
GenerateDetailedAnalysis(risks, w) ==
    LET temp == w.temperature
        humidity == w.humidity
        rainfall == w.rainfall
        t == IF Gt(temp, 32)
             THEN "High temperature (" \o Fmt1(temp) \o "C) favors spider mites and heat stress"
             ELSE IF Lt(temp, 15)
             THEN "Cool temperature (" \o Fmt1(temp)
                  \o "C) slows pest development but may stress plants"
             ELSE "Moderate temperature (" \o Fmt1(temp)
                  \o "C) suitable for most pest activity"
        h == IF Gt(humidity, 75)
             THEN "High humidity (" \o Fmt0(humidity)
                  \o "%) creates ideal conditions for fungal diseases"
             ELSE IF Lt(humidity, 40)
             THEN "Low humidity (" \o Fmt0(humidity) \o "%) favors spider mites and thrips"
             ELSE "Moderate humidity (" \o Fmt0(humidity) \o "%) - balanced conditions"
        r == IF Gt(rainfall, 15)
             THEN "Heavy rainfall (" \o Fmt1(rainfall)
                  \o "mm) increases fungal disease pressure"
             ELSE IF Lt(rainfall, 2)
             THEN "Dry conditions (" \o Fmt1(rainfall) \o "mm) favor drought-stress pests"
             ELSE "Moderate moisture (" \o Fmt1(rainfall) \o "mm) - good for plant health"
    IN  << <<"temperature", t>>, <<"humidity", h>>, <<"rainfall", r>> >>

(***************************************************************************)
(* assess_pest_risk, lines 121-138, given the scores of line 118           *)
(***************************************************************************)
\* PestRiskAssessment whose recommendations are computed from scores that
\* share the verdict's escalation
PestRiskAssessmentEscalatedAdvice(risks, w) ==
    LET overall_risk == DetermineOverallRisk(risks, w)
        escalated == [i \in DOMAIN risks |->
                         <<risks[i][1],
                           IF ExtremeWeather(w) THEN FMin(FAdd(risks[i][2], F0_2), F1_0)
                           ELSE risks[i][2]>>]
        recommendations == GenerateRecommendations(escalated, w)
        primary_threats == IdentifyPrimaryThreats(risks)
    IN  [risk_level |-> overall_risk.level,
         risk_color |-> overall_risk.color,
         risk_emoji |-> overall_risk.emoji,
         confidence |-> overall_risk.confidence,
         primary_threats |-> primary_threats,
         recommendations |-> recommendations,
         weather_summary |-> GenerateWeatherSummary(w),
         detailed_analysis |-> GenerateDetailedAnalysis(risks, w)]

PestRiskAssessment(risks, w) ==
    LET overall_risk == DetermineOverallRisk(risks, w)
        recommendations == GenerateRecommendations(risks, w)
        primary_threats == IdentifyPrimaryThreats(risks)
    IN  [risk_level |-> overall_risk.level,
         risk_color |-> overall_risk.color,
         risk_emoji |-> overall_risk.emoji,
         confidence |-> overall_risk.confidence,
         primary_threats |-> primary_threats,
         recommendations |-> recommendations,
         weather_summary |-> GenerateWeatherSummary(w),
         detailed_analysis |-> GenerateDetailedAnalysis(risks, w)]

(***************************************************************************)
(* get_pest_risk_assessment, lines 356-369: the override                   *)
(***************************************************************************)
\* IsUnknown as if line 356 read "if disease:"
IsUnknownAnyLabel(d) ==
    /\ ~d.is_none
    /\ d.text # <<>>

\* line 356
IsUnknown(d) ==
    /\ ~d.is_none
    /\ d.text # <<>>
    /\ Lower(d.text) = <<"u", "n", "k", "n", "o", "w", "n">>

\* UnknownOverride leaving the weather-derived summary and analysis in place
UnknownOverridePartial(a) ==
    [a EXCEPT !.risk_level = "Unknown",
              !.risk_color = "black",
              !.risk_emoji = "black circle",
              !.confidence = F0_0,
              !.primary_threats = <<"Not detected (image unknown)">>,
              !.recommendations =
                  <<"Unable to provide pest risk due to unclear image.",
                    "Retake a clearer photo under good lighting.",
                    "Monitor your plant and try again.",
                    "If symptoms persist, consult a plant expert.">>]

UnknownOverride(a) ==
    [a EXCEPT !.risk_level = "Unknown",
              !.risk_color = "black",
              !.risk_emoji = "black circle",
              !.confidence = F0_0,
              !.primary_threats = <<"Not detected (image unknown)">>,
              !.recommendations =
                  <<"Unable to provide pest risk due to unclear image.",
                    "Retake a clearer photo under good lighting.",
                    "Monitor your plant and try again.",
                    "If symptoms persist, consult a plant expert.">>,
              !.weather_summary = "No valid assessment (image unrecognized)",
              !.detailed_analysis = <<>>]

(***************************************************************************)
(* get_weather_data                                                        *)
(***************************************************************************)
\* lines 78-82 raise: response.json() on a body that is not JSON, the
\* KeyError of data['main'], ['temp'] or ['humidity'], or the AttributeError
\* of .get on a rain that is no dict
PayloadRaises(data) ==
    \/ ~data.valid_json
    \/ ~data.has_main
    \/ ~data.has_temp
    \/ ~data.has_humidity
    \/ data.rain = "scalar"

\* lines 79-84: the values are taken as received
PayloadReading(data) ==
    WeatherData(data.temp, data.humidity, IF data.rain = "1h" THEN data.rain_1h ELSE 0)

\* GetWeatherDataReturn without the test of the status code
GetWeatherDataReturnAnyStatus(key, response) ==
    IF key
    THEN IF response.kind = "raised" THEN "mock"
         ELSE IF PayloadRaises(response.data) THEN "mock" ELSE "live"
    ELSE "mock"

\* lines 69-89: the return statement get_weather_data leaves by
GetWeatherDataReturn(key, response) ==
    IF key
    THEN IF response.kind = "raised" THEN "mock"
         ELSE IF response.status_code = 200
              THEN IF PayloadRaises(response.data) THEN "mock" ELSE "live"
              ELSE "mock"
    ELSE "mock"

\* the comparisons of lines 150-154 accept the reading's values
Numeric(w) ==
    /\ w.temperature # JsonNull
    /\ w.humidity # JsonNull
    /\ w.rainfall # JsonNull

(***************************************************************************)
(* One request: get_pest_risk_assessment(location, api_key, disease).      *)
(* Each action states its position and the position it moves to before     *)
(* anything else.                                                          *)
(***************************************************************************)
Init ==
    /\ pc = "FetchWeather"
    /\ api_key \in BOOLEAN
    /\ disease \in Diseases
    /\ fetch = NoFetch
    /\ weather_data = None
    /\ pest_risks = None
    /\ max_risk = None
    /\ assessment = None
    /\ calls = <<>>
    /\ heap = <<>>
    /\ page = None
    /\ uploads = {}

\* get_weather_data, line 76: a key is set and the source is asked
RequestsGet ==
    /\ pc = "FetchWeather"
    /\ api_key
    /\ pc' = "HandleResponse"
    /\ fetch' \in [contacts : {fetch.contacts + 1}, response : Responses,
                    returned : {"none"}]
    /\ UNCHANGED <<api_key, disease, weather_data, pest_risks, max_risk, assessment,
                   calls, heap, page, uploads>>

\* get_weather_data, lines 77-84: the response has status 200 and carries the
\* reading
GetWeatherDataLive ==
    /\ pc = "HandleResponse"
    /\ GetWeatherDataReturn(api_key, fetch.response) = "live"
    /\ pc' = "Score"
    /\ weather_data' = PayloadReading(fetch.response.data)
    /\ fetch' = [fetch EXCEPT !.returned = "live"]
    /\ UNCHANGED <<api_key, disease, pest_risks, max_risk, assessment, calls, heap, page, uploads>>

\* get_weather_data, line 89: no key, or the request raised, or the status is
\* not 200, or reading the payload raised: _generate_mock_weather
GetWeatherDataMock ==
    /\ pc \in {"FetchWeather", "HandleResponse"}
    /\ pc = "FetchWeather" => ~api_key
    /\ GetWeatherDataReturn(api_key, fetch.response) = "mock"
    /\ pc' = "Score"
    /\ \E w \in Scenarios : weather_data' = w
    /\ fetch' = [fetch EXCEPT !.returned = "mock"]
    /\ UNCHANGED <<api_key, disease, pest_risks, max_risk, assessment, calls, heap, page, uploads>>

\* assess_pest_risk, line 118
Score ==
    /\ pc = "Score"
    /\ Numeric(weather_data)
    /\ pc' = "Aggregate"
    /\ pest_risks' = CalculateIndividualPestRisks(weather_data)
    /\ UNCHANGED <<api_key, disease, fetch, weather_data, max_risk, assessment,
                   calls, heap, page, uploads>>

\* assess_pest_risk, line 118: a comparison of lines 150-154 raises TypeError,
\* which nothing up to get_pest_risk_assessment's caller catches
ScoreTypeError ==
    /\ pc = "Score"
    /\ ~Numeric(weather_data)
    /\ pc' = "Raised"
    /\ UNCHANGED <<api_key, disease, fetch, weather_data, pest_risks, max_risk,
                   assessment, calls, heap, page, uploads>>

\* assess_pest_risk, lines 121-138; max_risk is _determine_overall_risk's
\* local as it stands when the level is decided
Aggregate ==
    /\ pc = "Aggregate"
    /\ pc' = "MaybeOverride"
    /\ max_risk' = EscalatedMaxRisk(pest_risks, weather_data)
    /\ assessment' = PestRiskAssessment(pest_risks, weather_data)
    /\ UNCHANGED <<api_key, disease, fetch, weather_data, pest_risks, calls, heap, page, uploads>>

\* get_pest_risk_assessment, lines 356-371
MaybeOverride ==
    /\ pc = "MaybeOverride"
    /\ pc' = "Done"
    /\ assessment' = IF IsUnknown(disease) THEN UnknownOverride(assessment) ELSE assessment
    /\ UNCHANGED <<api_key, disease, fetch, weather_data, pest_risks, max_risk,
                   calls, heap, page, uploads>>

Next ==
    \/ RequestsGet
    \/ GetWeatherDataLive
    \/ GetWeatherDataMock
    \/ Score
    \/ ScoreTypeError
    \/ Aggregate
    \/ MaybeOverride

Spec == Init /\ [][Next]_vars

\* Scheduling: the interpreter goes on executing a call that has neither
\* returned (Done) nor raised, so such a request moves on to its next
\* position.  Every step of Next moves pc, and a request that has not
\* returned or raised has a step.
Positions ==
    {"FetchWeather", "HandleResponse", "Score", "Aggregate", "MaybeOverride", "Done",
     "Raised"}

Runs ==
    /\ pc \notin {"Done", "Raised"}
    /\ pc' \in Positions
    /\ pc' # pc

FairSpec == Spec /\ WF_pc(Runs)


(***************************************************************************)
(* The aggregation applied to an arbitrary score mapping:                  *)
(* _determine_overall_risk and _identify_primary_threats take any mapping  *)
(* of the five categories, so here the scores are drawn from doubles       *)
(* around the decision thresholds instead of coming from a reading.        *)
(***************************************************************************)
\* the double just below x (x not a power of two)
FPrev(x) == Carry(<<x[1] - Ulp(x), x[2], x[3], x[4], x[5]>>, 0)

ScoreValues == {F0_3, FPrev(F0_4), F0_4, Dec(5, 10), FPrev(F0_7), F0_7, F1_0}

ScoreMappings ==
    {<< <<"aphids", a>>, <<"fungal_diseases", f>>, <<"spider_mites", m>>,
        <<"thrips", t>>, <<"whiteflies", y>> >> :
        a \in ScoreValues, f \in ScoreValues, m \in ScoreValues,
        t \in ScoreValues, y \in ScoreValues}

FnReadings == {WeatherData(22, 55, 2), WeatherData(36, 95, RainHi)}

InitFn ==
    /\ pc = "Aggregate"
    /\ api_key = FALSE
    /\ disease = NoDisease
    /\ fetch = NoFetch
    /\ weather_data \in FnReadings
    /\ pest_risks \in ScoreMappings
    /\ max_risk = None
    /\ assessment = None
    /\ calls = <<>>
    /\ heap = <<>>
    /\ page = None
    /\ uploads = {}

NextFn == Aggregate

SpecFn == InitFn /\ [][NextFn]_vars

(***************************************************************************)
(* Concurrent requests.  Each call of get_pest_risk_assessment has its own *)
(* frame: the label it was given and its locals weather_data, pest_risks   *)
(* and assessment.  The assessment is an object: the frame holds a         *)
(* reference to it, and the override of lines 357-369 assigns to the       *)
(* object's fields.  The readings carry the timestamp datetime.now() gave  *)
(* them.                                                                   *)
(***************************************************************************)
MaxTimestamp == 2

Calls == {1, 2}
Timestamps == 1..MaxTimestamp
ConcDiseases == {NoDisease, Str(<<"U", "n", "k", "n", "o", "w", "n">>)}

\* a WeatherData with its timestamp
Stamped(w, ts) ==
    [temperature |-> w.temperature, humidity |-> w.humidity, rainfall |-> w.rainfall,
     timestamp |-> ts]

\* what get_weather_data can return: the scenarios and a live reading
ConcReadings == Scenarios \cup {WeatherData(4, 0 - 5, 0 - 3)}

\* NewObject handing out one and the same object to every call
NewObjectShared(h) == IF h = <<>> THEN 1 ELSE 1

\* line 129: PestRiskAssessment(...) constructs a new object
NewObject(h) == Len(h) + 1

Store(h, ref, obj) == IF ref = Len(h) + 1 THEN Append(h, obj) ELSE [h EXCEPT ![ref] = obj]

request == <<pc, api_key, disease, fetch, weather_data, pest_risks, max_risk, assessment>>

InitConc ==
    /\ calls \in [Calls -> {[pc |-> "FetchWeather", disease |-> d, weather_data |-> None,
                             pest_risks |-> None, assessment |-> 0] : d \in ConcDiseases}]
    /\ heap = <<>>
    /\ page = None
    /\ uploads = {}
    /\ pc = "Concurrent"
    /\ api_key = FALSE
    /\ disease = NoDisease
    /\ fetch = NoFetch
    /\ weather_data = None
    /\ pest_risks = None
    /\ max_risk = None
    /\ assessment = None

\* line 352
ConcFetch(c) ==
    /\ calls[c].pc = "FetchWeather"
    /\ \E w \in ConcReadings, ts \in Timestamps :
           calls' = [calls EXCEPT ![c].weather_data = Stamped(w, ts), ![c].pc = "Score"]
    /\ UNCHANGED heap
    /\ UNCHANGED <<request, page, uploads>>

\* line 353, assess_pest_risk line 118
ConcScore(c) ==
    /\ calls[c].pc = "Score"
    /\ calls' = [calls EXCEPT
                    ![c].pest_risks = CalculateIndividualPestRisks(calls[c].weather_data),
                    ![c].pc = "Aggregate"]
    /\ UNCHANGED heap
    /\ UNCHANGED <<request, page, uploads>>

\* line 353, assess_pest_risk lines 121-138
ConcAggregate(c) ==
    /\ calls[c].pc = "Aggregate"
    /\ LET ref == NewObject(heap)
       IN  /\ heap' = Store(heap, ref,
                            PestRiskAssessment(calls[c].pest_risks, calls[c].weather_data))
           /\ calls' = [calls EXCEPT ![c].assessment = ref, ![c].pc = "MaybeOverride"]
    /\ UNCHANGED <<request, page, uploads>>

\* lines 356-371
ConcMaybeOverride(c) ==
    /\ calls[c].pc = "MaybeOverride"
    /\ heap' = IF IsUnknown(calls[c].disease)
               THEN [heap EXCEPT ![calls[c].assessment] = UnknownOverride(@)]
               ELSE heap
    /\ calls' = [calls EXCEPT ![c].pc = "Done"]
    /\ UNCHANGED <<request, page, uploads>>

NextConc ==
    \E c \in Calls :
        \/ ConcFetch(c)
        \/ ConcScore(c)
        \/ ConcAggregate(c)
        \/ ConcMaybeOverride(c)

SpecConc == InitConc /\ [][NextConc]_vars

(***************************************************************************)
(* Properties                                                              *)
(***************************************************************************)
Categories == <<"aphids", "fungal_diseases", "spider_mites", "thrips", "whiteflies">>

Scored == pc \in {"Aggregate", "MaybeOverride", "Done"}
Assessed == pc = "MaybeOverride"

ScoreOf(i) == pest_risks[i][2]

\* C1: for every reading, also one with negative rainfall or a humidity
\* outside [0,100], the scorer returns a score for exactly the five
\* categories aphids, fungal_diseases, spider_mites, thrips, whiteflies, and
\* each score lies in [0,1].
C1_ScoresInUnitInterval ==
    Scored =>
        /\ [i \in 1..Len(pest_risks) |-> pest_risks[i][1]] = Categories
        /\ \A i \in 1..Len(pest_risks) : FLeq(F0_0, ScoreOf(i)) /\ FLeq(ScoreOf(i), F1_0)

\* an out-of-range reading all of whose aphid conditions hold: score 1.0
C1_Witness ==
    /\ Scored
    /\ Gt(weather_data.humidity, 100)
    /\ Lt(weather_data.rainfall, 0)
    /\ ScoreOf(1) = F1_0

\* The rule table of the specification, weights in tenths.
RuleTenths(i, w) ==
    LET t == w.temperature
        h == w.humidity
        r == w.rainfall
        wt(cond, tenths) == IF cond THEN tenths ELSE 0
    IN  CASE i = 1 -> wt(Le(15, t) /\ Le(t, 25), 4) + wt(Gt(h, 50), 3) + wt(Lt(r, 10), 3)
          [] i = 2 -> wt(Le(20, t) /\ Le(t, 30), 3) + wt(Gt(h, 70), 4) + wt(Gt(r, 5), 3)
          [] i = 3 -> wt(Gt(t, 27), 4) + wt(Lt(h, 40), 3) + wt(Lt(r, 2), 3)
          [] i = 4 -> wt(Le(20, t) /\ Le(t, 30), 3) + wt(Le(40, h) /\ Le(h, 70), 3) + wt(Lt(r, 8), 4)
          [] i = 5 -> wt(Le(25, t) /\ Le(t, 32), 4) + wt(Gt(h, 60), 3) + wt(Lt(r, 12), 3)

\* C2: each category's score is the sum of the weights of the satisfied
\* conditions of the rule table (band ends inclusive, one-sided bounds
\* strict), clamped to at most 1.0: the float sum the code accumulates is
\* the double of the exact decimal sum.
C2_ScoreIsRuleTableSum ==
    Scored =>
        \A i \in 1..5 :
            LET sum == RuleTenths(i, weather_data)
            IN  ScoreOf(i) = Dec(IF sum > 10 THEN 10 ELSE sum, 10)

\* a reading on band ends (temperature 30, humidity 70) and on one-sided
\* bounds (rainfall 8): thrips gets the two band weights only
C2_Witness ==
    /\ Scored
    /\ weather_data.temperature = 30
    /\ weather_data.humidity = 70
    /\ weather_data.rainfall = 8
    /\ ScoreOf(4) = F0_6
    /\ ScoreOf(2) = F0_6

\* C3: the level is decided from the (possibly escalated) maximum score with
\* inclusive lower boundaries: >= 0.7 High, otherwise >= 0.4 Medium,
\* otherwise Low.
C3_LevelThresholds ==
    Assessed =>
        assessment.risk_level =
            IF ~FLess(max_risk, F0_7) THEN "High"
            ELSE IF ~FLess(max_risk, F0_4) THEN "Medium"
            ELSE "Low"

\* an escalated maximum of exactly 0.7 (0.5 + 0.2) is High
C3_Witness ==
    /\ Assessed
    /\ ExtremeWeather(weather_data)
    /\ max_risk = F0_7
    /\ assessment.risk_level = "High"

\* the largest score of the mapping, stated without the code's fold
IsRawMax(m) ==
    /\ \E i \in 1..5 : ScoreOf(i) = m
    /\ \A i \in 1..5 : FLeq(ScoreOf(i), m)

ClaimedExtreme(w) ==
    \/ Gt(w.temperature, 35)
    \/ Lt(w.temperature, 5)
    \/ Gt(w.humidity, 90)
    \/ Lt(w.humidity, 20)
    \/ Gt(w.rainfall, 25)

\* C4: escalation is applied exactly when temperature > 35 or < 5, humidity
\* > 90 or < 20, or rainfall > 25; it raises the maximum score by 0.2 once,
\* capped at 1.0, however many of the factors hold, and otherwise leaves the
\* maximum unchanged.
C4_EscalationOnce ==
    Assessed =>
        \A m \in {ScoreOf(i) : i \in 1..5} :
            IsRawMax(m) =>
                max_risk = IF ClaimedExtreme(weather_data)
                           THEN (IF FLess(F1_0, FAdd(m, F0_2)) THEN F1_0 ELSE FAdd(m, F0_2))
                           ELSE m

\* all three factors extreme, escalated once: 0.7 + 0.2, below the cap
C4_Witness ==
    /\ Assessed
    /\ Gt(weather_data.temperature, 35)
    /\ Gt(weather_data.humidity, 90)
    /\ Gt(weather_data.rainfall, 25)
    /\ IsRawMax(F0_7)
    /\ max_risk = FAdd(F0_7, F0_2)
    /\ FLess(max_risk, F1_0)

\* C5: confidence is min(maxScore, 0.95) for High, maxScore * 0.8 for Medium
\* and 1 - maxScore for Low, maxScore being the escalated maximum; so a High
\* verdict's confidence never exceeds 0.95 and every confidence is in [0,1].
C5_Confidence ==
    Assessed =>
        LET c == assessment.confidence
        IN  /\ assessment.risk_level = "High" =>
                   /\ c = (IF FLess(F0_95, max_risk) THEN F0_95 ELSE max_risk)
                   /\ FLeq(c, F0_95)
            /\ assessment.risk_level = "Medium" => c = FMul(max_risk, F0_8)
            /\ assessment.risk_level = "Low" => c = FSub(F1_0, max_risk)
            /\ assessment.risk_level \in {"High", "Medium", "Low"}
            /\ FLeq(F0_0, c) /\ FLeq(c, F1_0)

\* a High verdict whose maximum 1.0 is cut to 0.95
C5_Witness ==
    /\ Assessed
    /\ assessment.risk_level = "High"
    /\ max_risk = F1_0
    /\ assessment.confidence = F0_95


Rank(level) == CASE level = "Low" -> 0 [] level = "Medium" -> 1 [] level = "High" -> 2

\* How each reading the weather source can deliver is assessed: its maximum
\* category score, that maximum after escalation, and its level.
VerdictTable ==
    {LET risks == CalculateIndividualPestRisks(w)
     IN  [raw |-> MaxValue(risks),
          escalated |-> EscalatedMaxRisk(risks, w),
          level |-> DetermineOverallRisk(risks, w).level] : w \in Readings \cup Scenarios}

\* C6 as claimed: the level is a monotonic function of the maximum category
\* score: readings with an equal maximum get the same level, and a larger
\* maximum never gets a lower level.
C6_LevelFunctionOfMaxScore ==
    Assessed =>
        \A e \in VerdictTable :
            /\ e.raw = MaxValue(pest_risks) => e.level = assessment.risk_level
            /\ FLess(e.raw, MaxValue(pest_risks)) =>
                   Rank(e.level) <= Rank(assessment.risk_level)

\* C6, amended: the level is a monotonic function of the maximum category
\* score after extreme-weather escalation: readings with an equal escalated
\* maximum get the same level, and a reading with a larger maximum
\* (escalated or not) never gets a lower level than one with a smaller
\* maximum.
C6_LevelMonotoneInEscalatedMax ==
    Assessed =>
        \A e \in VerdictTable :
            /\ e.escalated = max_risk => e.level = assessment.risk_level
            /\ FLess(e.escalated, max_risk) =>
                   Rank(e.level) <= Rank(assessment.risk_level)
            /\ FLess(e.raw, MaxValue(pest_risks)) =>
                   Rank(e.level) <= Rank(assessment.risk_level)

\* a reading whose maximum 0.3 is escalated to 0.5: Medium, where a calm
\* reading with the same maximum is Low
C6_Witness ==
    /\ Assessed
    /\ MaxValue(pest_risks) = F0_3
    /\ ExtremeWeather(weather_data)
    /\ assessment.risk_level = "Medium"
    /\ \E e \in VerdictTable : e.raw = F0_3 /\ e.level = "Low"

DisplayNames == <<"Aphid Infestation", "Fungal Diseases", "Spider Mite Damage",
                  "Thrips Damage", "Whitefly Infestation">>

Significant == {i \in 1..5 : FLess(F0_3, ScoreOf(i))}

\* category j comes before category i: a higher score, or an equal score
\* and an earlier declaration
Before(j, i) == FLess(ScoreOf(i), ScoreOf(j)) \/ (ScoreOf(j) = ScoreOf(i) /\ j < i)

PlaceOf(i) == Cardinality({j \in Significant : Before(j, i)}) + 1

\* C7: primary_threats is the display names of the first three of the
\* categories scoring > 0.3, ordered by descending score, equal scores in
\* declaration order; so at most 3 entries, none scoring <= 0.3, sorted.
C7_PrimaryThreats ==
    Assessed =>
        LET t == assessment.primary_threats
            n == Cardinality(Significant)
        IN  /\ Len(t) = IF n < 3 THEN n ELSE 3
            /\ \A i \in Significant : PlaceOf(i) <= 3 => t[PlaceOf(i)] = DisplayNames[i]

\* four or more significant categories, two of equal score at the cut
C7_Witness ==
    /\ Assessed
    /\ Cardinality(Significant) >= 4
    /\ \E i, j \in Significant :
           i < j /\ ScoreOf(i) = ScoreOf(j) /\ PlaceOf(i) = 3 /\ PlaceOf(j) = 4
    /\ Len(assessment.primary_threats) = 3

HighRisk == {i \in 1..5 : FLess(F0_6, ScoreOf(i))}

WeatherTriggers ==
    (IF Gt(weather_data.humidity, 80) THEN 1 ELSE 0)
    + (IF Gt(weather_data.temperature, 32) THEN 1 ELSE 0)
    + (IF Gt(weather_data.rainfall, 15) THEN 1 ELSE 0)

\* C8: recommendations has at most 6 entries and no string twice.
C8_RecommendationsBounded ==
    Assessed =>
        LET r == assessment.recommendations
        IN  /\ Len(r) <= 6
            /\ \A i, j \in 1..Len(r) : r[i] = r[j] => i = j

\* more than 6 advisories were collected and the list was cut to 6
C8_Witness ==
    /\ Assessed
    /\ 3 * Cardinality(HighRisk) + WeatherTriggers > 6
    /\ Len(assessment.recommendations) = 6

\* The advisories in the order the claim lists them, before de-duplication.
ClaimedAdvisories ==
    LET block(i) == IF i \in HighRisk THEN PestAdvice(Categories[i]) ELSE <<>>
    IN  block(1) \o block(2) \o block(3) \o block(4) \o block(5)
        \o (IF Gt(weather_data.humidity, 80) THEN <<VentilationAdvice>> ELSE <<>>)
        \o (IF Gt(weather_data.temperature, 32) THEN <<ShadeAdvice>> ELSE <<>>)
        \o (IF Gt(weather_data.rainfall, 15) THEN <<DrainageAdvice>> ELSE <<>>)

\* C9: recommendations is the first 6 elements of the duplicate-free (first
\* occurrence kept) sequence of the three advisories of each category
\* scoring > 0.6, in declaration order, then the ventilation advisory if
\* humidity > 80, the shade advisory if temperature > 32 and the drainage
\* advisory if rainfall > 15.
C9_RecommendationsContent ==
    Assessed =>
        LET full == ClaimedAdvisories
            first == {k \in 1..Len(full) : \A j \in 1..(k - 1) : full[j] # full[k]}
            nth(n) == CHOOSE k \in first : Cardinality({j \in first : j < k}) = n - 1
            len == IF Cardinality(first) < 6 THEN Cardinality(first) ELSE 6
            r == assessment.recommendations
        IN  /\ Len(r) = len
            /\ \A n \in 1..len : r[n] = full[nth(n)]

\* a category at exactly 0.6 gets no advisories while another is above 0.6,
\* and a weather advisory follows the category advisories
C9_Witness ==
    /\ Assessed
    /\ \E i \in 1..5 : ScoreOf(i) = F0_6
    /\ Cardinality(HighRisk) = 1
    /\ Gt(weather_data.humidity, 80)
    /\ Len(assessment.recommendations) = 4
    /\ assessment.recommendations[4] = VentilationAdvice

\* the label is "unknown" in some letter case
LabelIsUnknown ==
    /\ ~disease.is_none
    /\ Len(disease.text) = 7
    /\ \A i \in 1..7 :
           disease.text[i] \in {<<"u", "n", "k", "n", "o", "w", "n">>[i],
                                <<"U", "N", "K", "N", "O", "W", "N">>[i]}

UnknownAssessment ==
    [risk_level |-> "Unknown",
     risk_color |-> "black",
     risk_emoji |-> "black circle",
     confidence |-> Dec(0, 1),
     primary_threats |-> <<"Not detected (image unknown)">>,
     recommendations |-> <<"Unable to provide pest risk due to unclear image.",
                           "Retake a clearer photo under good lighting.",
                           "Monitor your plant and try again.",
                           "If symptoms persist, consult a plant expert.">>,
     weather_summary |-> "No valid assessment (image unrecognized)",
     detailed_analysis |-> <<>>]

\* C10: with a label equal to "unknown" in any letter case the returned
\* assessment is the same fixed Unknown assessment for every weather
\* reading: level Unknown, confidence 0.0, the single-item threat list, the
\* 4-item recommendation list, the summary placeholder and an empty
\* detailed_analysis; no field depends on the reading.
C10_UnknownIsTotal ==
    (pc = "Done" /\ LabelIsUnknown) => assessment = UnknownAssessment

\* an upper-case label and a live extreme reading, overridden
C10_Witness ==
    /\ pc = "Done"
    /\ disease = Str(<<"U", "N", "K", "N", "O", "W", "N">>)
    /\ api_key
    /\ Gt(weather_data.temperature, 35)
    /\ FLess(F0_6, ScoreOf(2))
    /\ assessment.risk_level = "Unknown"

\* C11: without a label, with an empty label or with a label that is not
\* "unknown" in any letter case, the override changes no field: the returned
\* assessment is assess_pest_risk of the fetched reading, and its level is
\* Low, Medium or High, never Unknown.
C11_OtherLabelsUntouched ==
    (pc = "Done" /\ ~LabelIsUnknown) =>
        /\ assessment = PestRiskAssessment(CalculateIndividualPestRisks(weather_data),
                                           weather_data)
        /\ assessment.risk_level \in {"Low", "Medium", "High"}
        /\ assessment.risk_level # "Unknown"

\* a request labelled "Healthy" returns the weather-derived assessment
C11_Witness ==
    /\ pc = "Done"
    /\ disease = Str(<<"H", "e", "a", "l", "t", "h", "y">>)
    /\ assessment.risk_level = "Medium"
    /\ Len(assessment.detailed_analysis) = 3

\* what the claims say of a response, written from the claim's words
ResponseFailed ==
    \/ ~api_key
    \/ fetch.response.kind = "raised"
    \/ fetch.response.status_code # 200
    \/ ~fetch.response.data.valid_json
    \/ ~fetch.response.data.has_main
    \/ ~fetch.response.data.has_temp
    \/ ~fetch.response.data.has_humidity

Fetched == pc \in {"Score", "Aggregate", "MaybeOverride", "Done", "Raised"}

\* C12: get_weather_data never fails its caller: whatever the source
\* answered, it returns; without a key, after an exception of the request or
\* of reading the payload, or with a status other than 200 it returns one of
\* the synthetic readings; it returns a live reading only if a key is set,
\* the status is 200 and the payload carries temperature and humidity, and
\* then the reading holds the payload's values (rainfall 0 without rain.1h).
C12_FetchNeverFails ==
    /\ pc \in {"FetchWeather", "HandleResponse"} =>
           ENABLED (RequestsGet \/ GetWeatherDataLive \/ GetWeatherDataMock)
    /\ Fetched =>
           /\ fetch.returned \in {"live", "mock"}
           /\ ResponseFailed => fetch.returned = "mock"
           /\ fetch.returned = "mock" => weather_data \in Scenarios
           /\ fetch.returned = "live" =>
                  /\ api_key
                  /\ fetch.response.kind = "http"
                  /\ fetch.response.status_code = 200
                  /\ fetch.response.data.has_temp /\ fetch.response.data.has_humidity
                  /\ weather_data.temperature = fetch.response.data.temp
                  /\ weather_data.humidity = fetch.response.data.humidity
                  /\ weather_data.rainfall =
                         IF fetch.response.data.rain = "1h"
                         THEN fetch.response.data.rain_1h ELSE 0

\* a status 404 whose body would have been a good payload: synthetic reading
C12_Witness ==
    /\ pc = "Score"
    /\ api_key
    /\ fetch.response = HttpResponse(404, Payload(22, 55, "1h", 2))
    /\ fetch.returned = "mock"
    /\ weather_data = WeatherData(34, 82, 18)

LevelOf(w) == PestRiskAssessment(CalculateIndividualPestRisks(w), w).risk_level

\* C13, as claimed: whenever the synthetic reading is about to be scored,
\* the set it was picked from has a reading assessed Low, one assessed Medium
\* and one assessed High.
C13_ScenariosSpanLevels ==
    (pc = "Score" /\ fetch.returned = "mock") =>
        \A level \in {"Low", "Medium", "High"} :
            \E w \in Scenarios : LevelOf(w) = level

\* C14, as claimed: the reading (18, 85, 15) has fungal_diseases score 1.0,
\* level High and "Fungal Diseases" as the first primary threat.
C14_FungalFirst ==
    (Assessed /\ weather_data = WeatherData(18, 85, 15)) =>
        /\ pest_risks[2] = <<"fungal_diseases", F1_0>>
        /\ assessment.risk_level = "High"
        /\ assessment.primary_threats[1] = "Fungal Diseases"

\* C14, amended: the reading (18, 85, 15) has fungal_diseases score 0.7
\* (0.4 + 0.3: the temperature 18 is outside the band 20-30) and level High;
\* aphids score 0.7 as well and come first in the mapping, so
\* primary_threats is "Aphid Infestation", "Fungal Diseases".
C14_FungalSecond ==
    (Assessed /\ weather_data = WeatherData(18, 85, 15)) =>
        /\ pest_risks[2] = <<"fungal_diseases", F0_7>>
        /\ pest_risks[1] = <<"aphids", F0_7>>
        /\ assessment.risk_level = "High"
        /\ assessment.primary_threats = <<"Aphid Infestation", "Fungal Diseases">>

\* the cool and wet synthetic reading, assessed
C14_Witness ==
    /\ Assessed
    /\ weather_data = WeatherData(18, 85, 15)
    /\ fetch.returned = "mock"
    /\ assessment.confidence = F0_7

LevelColor(level) ==
    CASE level = "Low" -> "green" [] level = "Medium" -> "yellow" [] level = "High" -> "red"

\* C16, as claimed: assess_pest_risk has no error path: it raises for no
\* reading, and the assessment it returns has a level Low, Medium or High
\* with that level's colour, a confidence in [0,1], at most 3 primary
\* threats, at most 6 recommendations and a detailed_analysis with exactly
\* the keys temperature, humidity and rainfall.
C16_NoErrorPath ==
    /\ pc # "Raised"
    /\ Assessed =>
           /\ assessment.risk_level \in {"Low", "Medium", "High"}
           /\ assessment.risk_color = LevelColor(assessment.risk_level)
           /\ FLeq(F0_0, assessment.confidence) /\ FLeq(assessment.confidence, F1_0)
           /\ Len(assessment.primary_threats) <= 3
           /\ Len(assessment.recommendations) <= 6
           /\ [i \in 1..Len(assessment.detailed_analysis) |->
                   assessment.detailed_analysis[i][1]]
              = <<"temperature", "humidity", "rainfall">>

\* C17, as claimed: every reading that was scored has a humidity in [0,100]
\* and a rainfall of at least 0.
C17_ReadingsClamped ==
    Scored =>
        /\ Le(0, weather_data.humidity) /\ Le(weather_data.humidity, 100)
        /\ Le(0, weather_data.rainfall)
Stage(p) == IF p = "HandleResponse" THEN "FetchWeather" ELSE p
StageOrder == <<"FetchWeather", "Score", "Aggregate", "MaybeOverride", "Done">>

\* C18, as claimed: a request passes through the stages FetchWeather, Score,
\* Aggregate, MaybeOverride, Done in this order, each once; the weather
\* source is asked at most once; when scoring starts get_weather_data has
\* returned a reading, the synthetic one after a failure; no exception
\* reaches the caller; and every request eventually is Done.
C18_StagedRequest ==
    /\ [][\/ Stage(pc') = Stage(pc)
          \/ \E i \in 1..4 : Stage(pc) = StageOrder[i] /\ pc' = StageOrder[i + 1]]_pc
    /\ [](fetch.contacts <= 1)
    /\ [](pc \in {"Score", "Aggregate", "MaybeOverride", "Done"} =>
              /\ fetch.returned \in {"live", "mock"}
              /\ ResponseFailed => fetch.returned = "mock")
    /\ [](pc # "Raised")
    /\ <>(pc = "Done")

\* what a call returns when it runs alone with this reading and label
RunAlone(w, d) ==
    LET a == PestRiskAssessment(CalculateIndividualPestRisks(w), w)
    IN  IF LET disease_lower == [i \in DOMAIN d.text |-> LowerChar(d.text[i])]
           IN  ~d.is_none /\ disease_lower = <<"u", "n", "k", "n", "o", "w", "n">>
        THEN UnknownAssessment
        ELSE a

\* C19: in every interleaving of two calls each call's assessment object is
\* its own and holds what the call alone would have produced from its
\* reading and label: the weather-derived assessment until the call's own
\* override, and after it the assessment the call returns.  The override of
\* one call changes no field of the other call's assessment.
C19_CallsIndependent ==
    \A c \in Calls :
        calls[c].pc \in {"MaybeOverride", "Done"} =>
            /\ heap[calls[c].assessment] =
                   IF calls[c].pc = "Done"
                   THEN RunAlone(calls[c].weather_data, calls[c].disease)
                   ELSE RunAlone(calls[c].weather_data, NoDisease)
            /\ \A o \in Calls \ {c} : calls[o].assessment # calls[c].assessment

\* both calls got the same reading; the first was labelled Unknown and is
\* overridden, the second returned the weather-derived assessment
C19_Witness ==
    /\ calls[1].pc = "Done" /\ calls[2].pc = "Done"
    /\ calls[1].disease # NoDisease /\ calls[2].disease = NoDisease
    /\ calls[1].weather_data = calls[2].weather_data
    /\ heap[calls[1].assessment].risk_level = "Unknown"
    /\ heap[calls[2].assessment].risk_level = "High"
    /\ calls[2].assessment < calls[1].assessment

SameReading(v, w) ==
    /\ v.temperature = w.temperature
    /\ v.humidity = w.humidity
    /\ v.rainfall = w.rainfall

\* C20: two calls of assess_pest_risk whose readings have the same
\* temperature, humidity and rainfall, whatever their timestamps, produce
\* the same scores and the same assessment in every field; requests with the
\* same reading and label return the same assessment.
C20_DeterministicInReading ==
    \A c \in Calls : \A o \in Calls :
        /\ (/\ calls[c].pc = "MaybeOverride" /\ calls[o].pc = "MaybeOverride"
            /\ SameReading(calls[c].weather_data, calls[o].weather_data)) =>
               /\ calls[c].pest_risks = calls[o].pest_risks
               /\ heap[calls[c].assessment] = heap[calls[o].assessment]
        /\ (/\ calls[c].pc = "Done" /\ calls[o].pc = "Done"
            /\ calls[c].disease = calls[o].disease
            /\ SameReading(calls[c].weather_data, calls[o].weather_data)) =>
               heap[calls[c].assessment] = heap[calls[o].assessment]

\* two assessed calls with the same reading values and different timestamps
C20_Witness ==
    /\ calls[1].pc = "MaybeOverride" /\ calls[2].pc = "MaybeOverride"
    /\ SameReading(calls[1].weather_data, calls[2].weather_data)
    /\ calls[1].weather_data.timestamp # calls[2].weather_data.timestamp
    /\ heap[calls[1].assessment] = heap[calls[2].assessment]
    /\ heap[calls[1].assessment].risk_level = "High"


(***************************************************************************)
(* The weights of a category and the reading that meets all its conditions *)
(***************************************************************************)
\* the three conditions of category i, in the order the code tests them
Conditions(i, w) ==
    LET t == w.temperature
        h == w.humidity
        r == w.rainfall
    IN  CASE i = 1 -> <<Le(15, t) /\ Le(t, 25), Gt(h, 50), Lt(r, 10)>>
          [] i = 2 -> <<Le(20, t) /\ Le(t, 30), Gt(h, 70), Gt(r, 5)>>
          [] i = 3 -> <<Gt(t, 27), Lt(h, 40), Lt(r, 2)>>
          [] i = 4 -> <<Le(20, t) /\ Le(t, 30), Le(40, h) /\ Le(h, 70), Lt(r, 8)>>
          [] i = 5 -> <<Le(25, t) /\ Le(t, 32), Gt(h, 60), Lt(r, 12)>>

AllConditions(i, w) == \A k \in 1..3 : Conditions(i, w)[k]

\* the weights the claim gives the three conditions of category i
ClaimedWeights(i) ==
    CASE i = 1 -> <<F0_4, F0_3, F0_3>>
      [] i = 2 -> <<F0_3, F0_4, F0_3>>
      [] i = 3 -> <<F0_4, F0_3, F0_3>>
      [] i = 4 -> <<F0_3, F0_3, F0_4>>
      [] i = 5 -> <<F0_4, F0_3, F0_3>>

WeightsSumToOne ==
    \A i \in 1..5 :
        FAdd(FAdd(FAdd(F0_0, ClaimedWeights(i)[1]), ClaimedWeights(i)[2]),
             ClaimedWeights(i)[3]) = F1_0

JointlySatisfiable == \A i \in 1..5 : \E w \in Readings : AllConditions(i, w)

\* C22: the weights of each category add up, in the order the code adds
\* them, to the double 1.0; some reading meets all three conditions of the
\* category; and the category's score is 1.0 when all its conditions hold
\* and strictly below 1.0 when one of them fails.
C22_FullScoreIffAllConditions ==
    Scored =>
        /\ WeightsSumToOne
        /\ JointlySatisfiable
        /\ \A i \in 1..5 :
               /\ AllConditions(i, weather_data) => ScoreOf(i) = F1_0
               /\ ~AllConditions(i, weather_data) => FLess(ScoreOf(i), F1_0)

\* a reading that meets every condition of the whiteflies and misses one of
\* the thrips (humidity above the band), which score 0.7
C22_Witness ==
    /\ Scored
    /\ AllConditions(5, weather_data)
    /\ ScoreOf(5) = F1_0
    /\ ~AllConditions(4, weather_data)
    /\ ScoreOf(4) = F0_7


(***************************************************************************)
(* Low verdicts                                                            *)
(***************************************************************************)
\* what the claim says of every assessed reading
LowIffMaxIsThreeTenths ==
    /\ \E i \in 1..5 : FLeq(F0_3, ScoreOf(i))
    /\ assessment.risk_level = "Low"
           <=> (IsRawMax(F0_3) /\ ~ClaimedExtreme(weather_data))
    /\ assessment.risk_level = "Low" =>
           /\ assessment.confidence = F0_7
           /\ assessment.primary_threats = <<>>
    /\ ClaimedExtreme(weather_data) => assessment.risk_level \in {"Medium", "High"}

AllAdvisories ==
    PestAdvice("aphids") \o PestAdvice("fungal_diseases") \o PestAdvice("spider_mites")
    \o PestAdvice("thrips") \o PestAdvice("whiteflies")
    \o <<VentilationAdvice, ShadeAdvice, DrainageAdvice>>

PairwiseDistinct(s) == \A i, j \in DOMAIN s : s[i] = s[j] => i = j

WeatherAdvisories == {VentilationAdvice, ShadeAdvice, DrainageAdvice}

\* C24: the 15 category advisories and 3 weather advisories are pairwise
\* distinct; recommendations has min(6, 3k + w) entries for k categories
\* scoring > 0.6 and w satisfied weather triggers; and with k >= 2 it is the
\* advisories of the first two such categories in declaration order, with
\* no weather advisory, whatever the weather triggers.
C24_RecommendationsLength ==
    Assessed =>
        LET r == assessment.recommendations
            k == Cardinality(HighRisk)
            n == 3 * k + WeatherTriggers
        IN  /\ Len(AllAdvisories) = 18
            /\ PairwiseDistinct(AllAdvisories)
            /\ Len(r) = IF n < 6 THEN n ELSE 6
            /\ k >= 2 =>
                   LET first == CHOOSE i \in HighRisk : \A j \in HighRisk : i <= j
                       second == CHOOSE i \in HighRisk \ {first} :
                                     \A j \in HighRisk \ {first} : i <= j
                   IN  /\ r = PestAdvice(Categories[first]) \o PestAdvice(Categories[second])
                       /\ \A i \in 1..Len(r) : r[i] \notin WeatherAdvisories

\* two or more categories above 0.6 and two weather triggers: only the
\* advisories of the first two categories are left
C24_Witness ==
    /\ Assessed
    /\ Cardinality(HighRisk) >= 2
    /\ Gt(weather_data.humidity, 80)
    /\ Gt(weather_data.rainfall, 15)
    /\ Len(assessment.recommendations) = 6
    /\ \A i \in 1..6 : assessment.recommendations[i] \notin WeatherAdvisories


(***************************************************************************)
(* What escalation leaves alone                                            *)
(***************************************************************************)
\* C25: threats and recommendations follow the unescalated scores: a
\* category's advisory is recommended only if its own score exceeds 0.6 and
\* a threat is listed only if its own score exceeds 0.3, extreme weather or
\* not; a reading whose maximum score is 0.6 and that has an extreme factor
\* is assessed High (escalated to 0.8, which is also its confidence) and
\* is recommended nothing but weather advisories.
C25_EscalationLeavesAdvisories ==
    Assessed =>
        LET r == assessment.recommendations
            t == assessment.primary_threats
        IN  /\ \A i \in 1..5 : \A k \in 1..3 :
                   (\E n \in 1..Len(r) : r[n] = PestAdvice(Categories[i])[k])
                       => i \in HighRisk
            /\ \A n \in 1..Len(t) : \E i \in Significant : t[n] = DisplayNames[i]
            /\ (IsRawMax(F0_6) /\ ClaimedExtreme(weather_data)) =>
                   /\ max_risk = F0_8
                   /\ assessment.risk_level = "High"
                   /\ assessment.risk_color = "red"
                   /\ assessment.confidence = F0_8
                   /\ \A n \in 1..Len(r) : r[n] \in WeatherAdvisories

\* an extreme reading whose maximum score is 0.6 and that meets no weather
\* trigger: High, with empty recommendations
C25_Witness ==
    /\ Assessed
    /\ IsRawMax(F0_6)
    /\ ClaimedExtreme(weather_data)
    /\ assessment.risk_level = "High"
    /\ assessment.recommendations = <<>>
    /\ assessment.primary_threats # <<>>


(***************************************************************************)
(* src/app.py.  model.predict answers with five float32 probabilities.  A  *)
(* float32 in [0,1] that is a multiple of 2^-25 is written as that         *)
(* multiple: every float32 from 0.25 up is one, among them the neighbours  *)
(* of the thresholds 0.4 and 0.6, which no float32 equals: float32(0.4) is *)
(* 13421773 units and lies above 0.4, float32(0.6) is 20132660 units and   *)
(* lies above 0.6.                                                         *)
(***************************************************************************)
Float32One == 33554432

\* the double a float32 of n units is equal to
Double(n) == <<0, 0, (8 * n) % B, ((8 * n) \div B) % B, (8 * n) \div (B * B)>>

\* the outputs of the softmax, five probabilities that add up to one: the
\* largest is float32(0.4) twice, the float32 below 0.4 twice, 1.0, or
\* float32(0.6); each at every class
Patterns ==
    {<<13421773, 13421773, 6710886, 0, 0>>,
     <<13421772, 13421772, 6710888, 0, 0>>,
     <<Float32One, 0, 0, 0, 0>>,
     <<20132660, 13421772, 0, 0, 0>>}

Predictions ==
    {[i \in 1..5 |-> pattern[perm[i]]] : pattern \in Patterns, perm \in Permutations(1..5)}

Blight == <<"B", "l", "i", "g", "h", "t">>
Healthy == <<"H", "e", "a", "l", "t", "h", "y">>
Mosaic == <<"M", "o", "s", "a", "i", "c">>
Rust == <<"R", "u", "s", "t">>
Unknown == <<"U", "n", "k", "n", "o", "w", "n">>

classes == <<Blight, Healthy, Mosaic, Rust, Unknown>>
CONFIDENCE_THRESHOLD == Dec(4, 10)

\* tf.reduce_max(pred[0])
ReduceMax(pred) == CHOOSE m \in {pred[i] : i \in 1..5} : \A i \in 1..5 : pred[i] <= m

\* tf.argmax(pred[0]): an index of the largest value; which one, among equal
\* values, is not specified
ArgMax(pred) == {i \in 1..5 : pred[i] = ReduceMax(pred)}

\* PredClass without the test against the threshold
PredClassOfArgMax(pred, k) == classes[k]

\* lines 327-332, k being the answer of tf.argmax
PredClass(pred, k) ==
    IF FLess(Double(ReduceMax(pred)), CONFIDENCE_THRESHOLD) THEN Unknown ELSE classes[k]

(***************************************************************************)
(* get_comprehensive_recommendation and the RECOMMENDATIONS table.  A dict *)
(* is its items in insertion order.  The lists and texts an entry holds    *)
(* are written as the place of the table they stand at: a copy of the      *)
(* entry holds the same objects.                                           *)
(***************************************************************************)
Entry(key, name, severity) ==
    << <<"disease", name>>,
       <<"severity", severity>>,
       <<"immediate_actions", <<key, "immediate_actions">> >>,
       <<"preventive_measures", <<key, "preventive_measures">> >>,
       <<"monitoring", <<key, "monitoring">> >>,
       <<"fertilizer_advice", <<key, "fertilizer_advice">> >>,
       <<"organic_solutions", <<key, "organic_solutions">> >> >>

\* the table's keys in insertion order; entry i is the object i of the heap
RecommendationKeys == <<Blight, Healthy, Mosaic, Rust, Unknown>>

RecommendationEntries ==
    <<Entry("Blight", "Leaf Blight", "High"),
      Entry("Healthy", "No Disease Detected", "None"),
      Entry("Mosaic", "Mosaic Virus", "High"),
      Entry("Rust", "Leaf Rust", "Medium"),
      Entry("Unknown", "Unidentified Condition", "Unknown")>>

\* line 158: RECOMMENDATIONS.get(prediction, RECOMMENDATIONS['Unknown']), a
\* reference to an entry of the table
RECOMMENDATIONS(prediction) ==
    IF \E i \in 1..5 : RecommendationKeys[i] = prediction
    THEN CHOOSE i \in 1..5 : RecommendationKeys[i] = prediction
    ELSE CHOOSE i \in 1..5 : RecommendationKeys[i] = Unknown

\* confidence_score defaults to None
NoScore == 0 - 1

\* line 161: the truth value of None, of 0.0 and of any other float32
Truthy(confidence_score) == confidence_score # NoScore /\ confidence_score # 0

\* line 162: confidence_score < 0.6
BelowNoteThreshold(confidence_score) == FLess(Double(confidence_score), Dec(6, 10))

\* "{x:.1%}" of a float32 of n units: n * 1000 / 2^25 rounded to an integer,
\* ties to even, shown with one decimal place and a percent sign
Percent1(n) ==
    LET a == (n \div 4096) * 125
        b == (n % 4096) * 125
        whole == a \div 1024
        rest == (a % 1024) * 4096 + b
        q == whole + rest \div 4194304
        r == rest % 4194304
        up == r > 2097152 \/ (r = 2097152 /\ q % 2 = 1)
        permille == IF up THEN q + 1 ELSE q
    IN  ToString(permille \div 10) \o "." \o ToString(permille % 10) \o "%"

ConfidenceNote(confidence_score) ==
    "Detection confidence: " \o Percent1(confidence_score)
        \o ". Consider getting second opinion."

HasKey(dict, key) == \E i \in DOMAIN dict : dict[i][1] = key

\* dict[key] = value: an existing key keeps its place
SetItem(dict, key, value) ==
    IF HasKey(dict, key)
    THEN [i \in DOMAIN dict |-> IF dict[i][1] = key THEN <<key, value>> ELSE dict[i]]
    ELSE Append(dict, <<key, value>>)

\* DictCopy handing back the dict it was given
DictCopyAlias(h, ref) == IF h = <<>> THEN ref ELSE ref

\* line 163, dict(base_rec): the reference of the new dict
DictCopy(h, ref) == NewObject(h)

\* lines 158-166 run by one request on its own: the dict it is handed
GetComprehensiveRecommendation(prediction, confidence_score) ==
    LET base_rec == RecommendationEntries[RECOMMENDATIONS(prediction)]
    IN  IF Truthy(confidence_score) /\ BelowNoteThreshold(confidence_score)
        THEN SetItem(base_rec, "confidence_note", ConfidenceNote(confidence_score))
        ELSE base_rec

(***************************************************************************)
(* get_pest_risk_assessment as the page calls it: the whole request of     *)
(* lines 350-371 for one answer of the weather source and one pick of      *)
(* random.choice.                                                          *)
(***************************************************************************)
GetPestRiskAssessment(key, d, response, mock) ==
    LET w == IF GetWeatherDataReturn(key, response) = "live"
             THEN PayloadReading(response.data)
             ELSE mock
    IN  IF ~Numeric(w) THEN [raised |-> TRUE, assessment |-> None]
        ELSE LET a == PestRiskAssessment(CalculateIndividualPestRisks(w), w)
             IN  [raised |-> FALSE,
                  assessment |-> IF IsUnknown(d) THEN UnknownOverride(a) ELSE a]

\* PestRiskDisease never passing the label on
PestRiskDiseaseNone(pred_class) == IF pred_class = <<>> THEN NoDisease ELSE NoDisease

\* lines 339-342: the disease argument of the call
PestRiskDisease(pred_class) ==
    IF Lower(pred_class) = <<"u", "n", "k", "n", "o", "w", "n">>
    THEN Str(Unknown)
    ELSE NoDisease

(***************************************************************************)
(* The upload                                                              *)
(***************************************************************************)
HasDot(s) == \E i \in DOMAIN s : s[i] = "."

\* s.rsplit('.', 1)[1] for an s with a dot: what follows the last dot
RSplit(s) ==
    LET i == CHOOSE k \in DOMAIN s : s[k] = "." /\ \A j \in (k + 1)..Len(s) : s[j] # "."
    IN  SubSeq(s, i + 1, Len(s))

\* lines 169-170
AllowedFile(filename) ==
    /\ HasDot(filename)
    /\ Lower(RSplit(filename)) \in {<<"j", "p", "g">>, <<"j", "p", "e", "g">>,
                                    <<"p", "n", "g">>}

\* lines 297-301
Ext(filename) ==
    IF HasDot(filename) THEN <<".">> \o Lower(RSplit(filename))
    ELSE <<".", "j", "p", "g">>

MinUploadSize == 1024

Filenames ==
    {<<>>,
     <<"a">>,
     <<"a", ".">>,
     <<"a", ".", "J", "P", "G">>,
     <<"a", ".", "j", "p", "e", "g">>,
     <<"a", ".", "g", "i", "f">>,
     <<"a", ".", "p", "n", "g", ".", "e", "x", "e">>,
     <<"a", ".", "t", "a", "r", ".", "P", "n", "g">>}

Sizes == {0, MinUploadSize - 1, MinUploadSize}

\* request.files has no 'file' part
NoFilePartRequest == [has_file |-> FALSE, filename |-> <<>>, size |-> 0, decodes |-> FALSE]

\* the file part: its name, its length in bytes and whether PIL can read it
PostRequests ==
    {NoFilePartRequest}
    \cup [has_file : {TRUE}, filename : Filenames, size : Sizes, decodes : BOOLEAN]

\* uuid.uuid4().hex: a name the folder does not hold yet (two uuid4 values
\* are taken to differ)
Uuids == {"u1", "u2"}
Fresh(folder) == {u \in Uuids : \A f \in folder : f.name.uuid # u}

File(uuid, ext, size) == [name |-> [uuid |-> uuid, ext |-> ext], size |-> size]

\* what earlier requests left in the folder
Folders == {{}, {File("u1", <<".", "j", "p", "g">>, 4 * MinUploadSize)}}

\* f.save(filepath)
Save(folder, name, size) ==
    {f \in folder : f.name # name} \cup {[name |-> name, size |-> size]}

\* Remove leaving the file where it is
RemoveNothing(folder, name) == IF name = <<>> THEN folder ELSE folder

\* os.remove(filepath)
Remove(folder, name) == {f \in folder : f.name # name}

Status400(text) == [status |-> 400, body |-> text]

\* lines 347-352
Rendered(p) ==
    [status |-> 200, prediction |-> p.pred_class, img_path |-> p.filename,
     confidence |-> p.confidence, recommendations |-> p.recommendations,
     pest_risk |-> p.pest_risk]

\* lines 354-363
ErrorPage == [status |-> 500, prediction |-> None, img_path |-> None, confidence |-> None,
              recommendations |-> None, pest_risk |-> None]

\* the answers of the weather source the page is served with
PostResponses ==
    {RequestRaised,
     HttpResponse(200, Payload(10, 45, "1h", 9)),
     HttpResponse(200, Payload(JsonNull, 55, "absent", 0)),
     HttpResponse(200, Payload(NaN, NaN, "1h", NaN))}

(***************************************************************************)
(* One POST to /index: plant_detection, lines 287-363.  page.found is the  *)
(* folder as the request found it.                                         *)
(***************************************************************************)
engine == <<pc, disease, fetch, weather_data, pest_risks, max_risk, assessment, calls, heap>>

InitPost ==
    /\ uploads \in Folders
    /\ page \in [pc : {"Start"}, request : PostRequests, found : {uploads},
                 filename : {None}, pred : {None}, pred_class : {None},
                 confidence : {None}, recommendations : {None}, disease : {None},
                 raised : {FALSE}, pest_risk : {None}, response : {None}]
    /\ api_key \in BOOLEAN
    /\ pc = "Serving"
    /\ disease = NoDisease
    /\ fetch = NoFetch
    /\ weather_data = None
    /\ pest_risks = None
    /\ max_risk = None
    /\ assessment = None
    /\ calls = <<>>
    /\ heap = <<>>

\* lines 289-290
NoFilePart ==
    /\ page.pc = "Start"
    /\ ~page.request.has_file
    /\ page' = [page EXCEPT !.pc = "Done",
                            !.response = Status400("No file part in the request.")]
    /\ UNCHANGED <<uploads, api_key, engine>>

\* lines 292-294
NoFileSelected ==
    /\ page.pc = "Start"
    /\ page.request.has_file
    /\ page.request.filename = <<>>
    /\ page' = [page EXCEPT
                   !.pc = "Done",
                   !.response = Status400("No file selected. Please upload an image.")]
    /\ UNCHANGED <<uploads, api_key, engine>>

\* lines 297-305
UnsupportedFormat ==
    /\ page.pc = "Start"
    /\ page.request.has_file
    /\ page.request.filename # <<>>
    /\ ~AllowedFile(page.request.filename)
    /\ page' = [page EXCEPT
                   !.pc = "Done",
                   !.response = Status400("Unsupported file format. Please upload JPG or PNG image.")]
    /\ UNCHANGED <<uploads, api_key, engine>>

\* lines 297-312
SaveUpload ==
    /\ page.pc = "Start"
    /\ page.request.has_file
    /\ page.request.filename # <<>>
    /\ AllowedFile(page.request.filename)
    /\ \E u \in Fresh(uploads) :
           LET name == [uuid |-> u, ext |-> Ext(page.request.filename)]
           IN  /\ page' = [page EXCEPT !.pc = "Saved", !.filename = name]
               /\ uploads' = Save(uploads, name, page.request.size)
    /\ UNCHANGED <<api_key, engine>>

\* lines 313-315
FileTooSmall ==
    /\ page.pc = "Saved"
    /\ page.request.size < MinUploadSize
    /\ uploads' = Remove(uploads, page.filename)
    /\ page' = [page EXCEPT
                   !.pc = "Done",
                   !.response = Status400("File too small or corrupted. Please upload a valid image.")]
    /\ UNCHANGED <<api_key, engine>>

\* lines 313-320: the file is large enough and PIL reads it
LoadImg ==
    /\ page.pc = "Saved"
    /\ page.request.size >= MinUploadSize
    /\ page.request.decodes
    /\ page' = [page EXCEPT !.pc = "Predict"]
    /\ UNCHANGED <<uploads, api_key, engine>>

\* line 318 raises (UnidentifiedImageError), lines 354-363 answer
LoadImgRaises ==
    /\ page.pc = "Saved"
    /\ page.request.size >= MinUploadSize
    /\ ~page.request.decodes
    /\ page' = [page EXCEPT !.pc = "Done", !.response = ErrorPage]
    /\ UNCHANGED <<uploads, api_key, engine>>

\* lines 323-332
Predict ==
    /\ page.pc = "Predict"
    /\ \E pred \in Predictions :
           \E k \in ArgMax(pred) :
               page' = [page EXCEPT !.pc = "Recommend",
                                    !.pred = pred,
                                    !.pred_class = PredClass(pred, k),
                                    !.confidence = ReduceMax(pred)]
    /\ UNCHANGED <<uploads, api_key, engine>>

\* line 335
Recommend ==
    /\ page.pc = "Recommend"
    /\ page' = [page EXCEPT
                   !.pc = "PestRisk",
                   !.recommendations =
                       GetComprehensiveRecommendation(page.pred_class, page.confidence)]
    /\ UNCHANGED <<uploads, api_key, engine>>

\* lines 338-344
PestRisk ==
    /\ page.pc = "PestRisk"
    /\ \E response \in PostResponses, mock \in Scenarios :
           LET d == PestRiskDisease(page.pred_class)
               result == GetPestRiskAssessment(api_key, d, response, mock)
           IN  page' = [page EXCEPT !.pc = "Render",
                                    !.disease = d,
                                    !.raised = result.raised,
                                    !.pest_risk = result.assessment]
    /\ UNCHANGED <<uploads, api_key, engine>>

\* lines 347-352
Render ==
    /\ page.pc = "Render"
    /\ page' = [page EXCEPT !.pc = "Done", !.response = Rendered(page)]
    /\ UNCHANGED <<uploads, api_key, engine>>

NextPost ==
    \/ NoFilePart
    \/ NoFileSelected
    \/ UnsupportedFormat
    \/ SaveUpload
    \/ FileTooSmall
    \/ LoadImg
    \/ LoadImgRaises
    \/ Predict
    \/ Recommend
    \/ PestRisk
    \/ Render

SpecPost == InitPost /\ [][NextPost]_vars


(***************************************************************************)
(* Concurrent calls of get_comprehensive_recommendation (the server runs   *)
(* each request in a thread of its own).  The heap starts as the entries   *)
(* of the RECOMMENDATIONS table, entry i being object i; a call's base_rec *)
(* is a reference into the heap.  Calls follow each other and interleave   *)
(* as long as the heap has room for the copies they may make.              *)
(***************************************************************************)
MaxCopies == 2

Weed == <<"W", "e", "e", "d">>
RecPredictions == {Blight, Unknown, Weed}

\* no score, 0.0, the float32 below float32(0.6), and float32(0.6)
RecScores == {NoScore, 0, 20132658, 20132660}

Idle == [pc |-> "Idle", prediction |-> <<>>, confidence_score |-> NoScore, base_rec |-> 0]

Running == {c \in Calls : calls[c].pc \notin {"Idle", "Done"}}

InitRec ==
    /\ calls = [c \in Calls |-> Idle]
    /\ heap = RecommendationEntries
    /\ page = None
    /\ uploads = {}
    /\ pc = "Recommending"
    /\ api_key = FALSE
    /\ disease = NoDisease
    /\ fetch = NoFetch
    /\ weather_data = None
    /\ pest_risks = None
    /\ max_risk = None
    /\ assessment = None

\* line 154: a request calls the function
RecCall(c) ==
    /\ calls[c].pc \in {"Idle", "Done"}
    /\ Len(heap) + Cardinality(Running) < Len(RecommendationEntries) + MaxCopies
    /\ \E p \in RecPredictions, s \in RecScores :
           calls' = [calls EXCEPT ![c] = [pc |-> "Get", prediction |-> p,
                                          confidence_score |-> s, base_rec |-> 0]]
    /\ UNCHANGED heap
    /\ UNCHANGED <<request, page, uploads>>

\* line 158
RecGet(c) ==
    /\ calls[c].pc = "Get"
    /\ calls' = [calls EXCEPT ![c].base_rec = RECOMMENDATIONS(calls[c].prediction),
                              ![c].pc = "Test"]
    /\ UNCHANGED heap
    /\ UNCHANGED <<request, page, uploads>>

\* lines 161-162
RecTest(c) ==
    /\ calls[c].pc = "Test"
    /\ calls' = [calls EXCEPT
                    ![c].pc = IF /\ Truthy(calls[c].confidence_score)
                                 /\ BelowNoteThreshold(calls[c].confidence_score)
                              THEN "Copy"
                              ELSE "Return"]
    /\ UNCHANGED heap
    /\ UNCHANGED <<request, page, uploads>>

\* line 163
RecCopy(c) ==
    /\ calls[c].pc = "Copy"
    /\ LET ref == DictCopy(heap, calls[c].base_rec)
       IN  /\ heap' = Store(heap, ref, heap[calls[c].base_rec])
           /\ calls' = [calls EXCEPT ![c].base_rec = ref, ![c].pc = "Note"]
    /\ UNCHANGED <<request, page, uploads>>

\* line 164
RecNote(c) ==
    /\ calls[c].pc = "Note"
    /\ heap' = [heap EXCEPT ![calls[c].base_rec] =
                    SetItem(@, "confidence_note", ConfidenceNote(calls[c].confidence_score))]
    /\ calls' = [calls EXCEPT ![c].pc = "Return"]
    /\ UNCHANGED <<request, page, uploads>>

\* line 166: base_rec is handed to the caller
RecReturn(c) ==
    /\ calls[c].pc = "Return"
    /\ calls' = [calls EXCEPT ![c].pc = "Done"]
    /\ UNCHANGED heap
    /\ UNCHANGED <<request, page, uploads>>

NextRec ==
    \E c \in Calls :
        \/ RecCall(c)
        \/ RecGet(c)
        \/ RecTest(c)
        \/ RecCopy(c)
        \/ RecNote(c)
        \/ RecReturn(c)

SpecRec == InitRec /\ [][NextRec]_vars


(***************************************************************************)
(* Properties of the page                                                  *)
(***************************************************************************)
Answered(code) == page.pc = "Done" /\ page.response.status = code

\* the classifier has answered and no later step has failed
Classified == page.pc \in {"Recommend", "PestRisk", "Render"} \/ Answered(200)

\* a float32 of n units is below the decimal tenths/10
BelowTenths(n, tenths) == 10 * n < tenths * Float32One

\* C21: in plant_detection, when the largest class probability is strictly
\* below 0.4 the predicted label is Unknown whatever the arg-max class is;
\* when it is at or above 0.4 the label is the class of a largest
\* probability; in both cases the reported confidence is the largest class
\* probability, and label and confidence are what the page renders.
C21_ThresholdForcesUnknown ==
    Classified =>
        LET pred == page.pred
            largest == page.confidence
        IN  /\ \E i \in 1..5 : pred[i] = largest
            /\ \A i \in 1..5 : pred[i] <= largest
            /\ BelowTenths(largest, 4) => page.pred_class = Unknown
            /\ ~BelowTenths(largest, 4) =>
                   \E i \in 1..5 : pred[i] = largest /\ page.pred_class = classes[i]
            /\ page.pred_class \in {Blight, Healthy, Mosaic, Rust, Unknown}
            /\ Answered(200) =>
                   /\ page.response.prediction = page.pred_class
                   /\ page.response.confidence = largest

\* the largest probability, the float32 just below 0.4, is the one of
\* Blight, and the page renders Unknown
C21_Witness ==
    /\ Answered(200)
    /\ page.pred[1] = 13421772
    /\ \A i \in 1..5 : page.pred[i] <= page.pred[1]
    /\ page.pred[5] = 0
    /\ page.response.prediction = Unknown
    /\ page.response.confidence = 13421772

\* C26: in a POST to /index the pest-risk assessment is requested with the
\* Unknown override exactly when the predicted label is Unknown; an
\* assessment that was obtained has level Unknown exactly when the
\* prediction is Unknown; and when obtaining it raised, the page is still
\* rendered (status 200) with the prediction and without a pest_risk.
C26_OverrideIffUnknown ==
    /\ (page.pc = "Render" \/ Answered(200)) =>
           /\ page.disease \in {Str(Unknown), NoDisease}
           /\ page.disease = Str(Unknown) <=> page.pred_class = Unknown
           /\ ~page.raised =>
                  (page.pest_risk.risk_level = "Unknown" <=> page.pred_class = Unknown)
           /\ page.raised => page.pest_risk = None
           /\ page.pc = "Done" =>
                  /\ page.response.prediction = page.pred_class
                  /\ page.response.pest_risk = page.pest_risk
    /\ (page.pc = "Done" /\ page.raised) => page.response.status = 200

\* the weather source answered with a null value, the assessment raised,
\* and the page shows the prediction without a pest_risk
C26_Witness ==
    /\ Answered(200)
    /\ page.raised
    /\ page.response.prediction = Unknown
    /\ page.response.pest_risk = None
    /\ page.response.recommendations # None

UpperChar(c) ==
    CASE c = "j" -> "J" [] c = "p" -> "P" [] c = "e" -> "E" [] c = "g" -> "G"
      [] c = "n" -> "N"

\* the name ends in .jpg, .jpeg or .png, in any letter case
ImageName(s) ==
    \E i \in DOMAIN s :
        /\ s[i] = "."
        /\ \E e \in {<<"j", "p", "g">>, <<"j", "p", "e", "g">>, <<"p", "n", "g">>} :
               /\ Len(s) = i + Len(e)
               /\ \A k \in 1..Len(e) : s[i + k] \in {e[k], UpperChar(e[k])}

Saved == page.filename # None

\* C27: a request answered with status 400 leaves the upload folder as it
\* found it: with no file part, an empty filename or an extension other
\* than jpg, jpeg or png (in any letter case) nothing was saved, and a saved
\* file of less than 1024 bytes is gone from the folder when the 400 is
\* returned.
C27_RejectedUploadLeavesFolder ==
    LET r == page.request
        refused == ~r.has_file \/ r.filename = <<>> \/ ~ImageName(r.filename)
    IN  /\ page.pc = "Start" => uploads = page.found
        /\ refused =>
               /\ ~Saved
               /\ uploads = page.found
               /\ page.pc = "Done" => page.response.status = 400
        /\ Answered(400) =>
               /\ uploads = page.found
               /\ refused \/ r.size < 1024
               /\ Saved => /\ r.size < 1024
                           /\ \A f \in uploads : f.name # page.filename

\* a file of 1023 bytes was saved under a fresh name next to an earlier
\* upload and removed again
C27_Witness ==
    /\ Answered(400)
    /\ Saved
    /\ page.request.size = 1023
    /\ page.found # {}
    /\ uploads = page.found

(***************************************************************************)
(* Properties of the recommendation table                                  *)
(***************************************************************************)
Noted(dict) == HasKey(dict, "confidence_note")

\* the score is non-zero and below 0.6
LowScore(s) == s # NoScore /\ s # 0 /\ BelowTenths(s, 6)

InTable(label) == \E i \in 1..5 : RecommendationKeys[i] = label

\* C28: whatever calls have run and are running, the five entries of the
\* RECOMMENDATIONS table are as they were defined, without a
\* confidence_note; a call whose confidence is non-zero and below 0.6 is
\* handed a copy of the entry with its own note added, any other call is
\* handed the table's entry itself, without a note; and a label that is not
\* a key of the table is handed the Unknown entry.
C28_TableNeverModified ==
    /\ \A i \in 1..5 : heap[i] = RecommendationEntries[i] /\ ~Noted(heap[i])
    /\ \A c \in Calls :
           calls[c].pc = "Done" =>
               LET s == calls[c].confidence_score
                   label == IF InTable(calls[c].prediction) THEN calls[c].prediction
                            ELSE Unknown
                   entry == CHOOSE i \in 1..5 : RecommendationKeys[i] = label
                   dict == heap[calls[c].base_rec]
               IN  /\ LowScore(s) =>
                          /\ calls[c].base_rec > 5
                          /\ dict = Append(RecommendationEntries[entry],
                                           <<"confidence_note", ConfidenceNote(s)>>)
                   /\ ~LowScore(s) =>
                          /\ calls[c].base_rec = entry
                          /\ ~Noted(dict)
                   /\ ~InTable(calls[c].prediction) =>
                          dict[1] = <<"disease", "Unidentified Condition">>

\* two calls for the same label have returned: one with a confidence below
\* 0.6, holding a copy with the note, one with float32(0.6), holding the
\* table's entry without a note
C28_Witness ==
    \E c, d \in Calls :
        /\ calls[c].pc = "Done"
        /\ calls[d].pc = "Done"
        /\ calls[c].prediction = Blight
        /\ calls[d].prediction = Blight
        /\ calls[c].confidence_score = 20132658
        /\ calls[d].confidence_score = 20132660
        /\ Noted(heap[calls[c].base_rec])
        /\ calls[d].base_rec = 1
        /\ ~Noted(heap[1])

=============================================================================
